---- MODULE Spec2Model ----
(***************************************************************************)
(* A model of gem.py: the Temporal Movement Graph (TemporalGraph), the     *)
(* Memory Index (MemoryIndex), the retention scorer (decay_score), the     *)
(* eviction pass (cleanup_old_memories) and the query dispatcher           *)
(* (find_object).                                                          *)
(*                                                                         *)
(* Python strings are TLA+ strings, handled with Len, \o and SubSeq, so    *)
(* lower(), strip(), replace(), split() and friends are computed character *)
(* by character.  An Optional value is a sequence of length at most one:   *)
(* None is << >> and a present value x is <<x>>.  A dict is a function.    *)
(***************************************************************************)
EXTENDS Integers, Sequences, FiniteSets, TLC

VARIABLES
  temporal,     \* the daemon's TemporalGraph: last_seen, movements, attached_objects, total_movements
  lastCall,     \* history: lowercased entity -> arguments of the most recent update() call
  emitted,      \* history: lowercased entity -> every ObjectMovement update() returned, newest first
  step,         \* history: the last operation performed, its arguments and its result
  clock,        \* the capture clock: the timestamp handed to the next graph operation
  index,        \* the MemoryIndex of the process: by_object, by_person, by_activity, memories, access_log
  files,        \* MEMORY_DIR: memory id -> the Memory saved in mem_<id>.json
  today,        \* datetime.now(), in days
  next_id,      \* the id the next capture gets
  evicted,      \* history: the ids cleanup has deleted
  index_file,   \* MEMORY_DIR/memory_index.json: None, or the JSON last written there
  qindex,       \* the MemoryIndex of the search process
  dpc,          \* where the daemon is: "stopped", "running" or "checkpoint"
  qpc,          \* where the search loop is: "idle", "loaded" or "answered"
  captures,     \* captures_this_session of the daemon
  queries,      \* the queries the search process has answered
  recorded,     \* history: memory id -> the highest access_count record_access has set
  graph_file,   \* DATA_DIR/temporal_graph.json: None, or what the file holds
  tmp_files,    \* the temp files left behind in the directory of temporal_graph.json
  qtemporal,    \* the TemporalGraph of the search process
  disk_ops,     \* the saves, loads and damages of temporal_graph.json so far
  writer,       \* the atomic_write_text call under way: its next step, its temp file, its data
  retry         \* the retry_api_call under way: its position, attempt, backoff and the calls made

graphVars == <<temporal, lastCall, emitted, clock>>
indexVars == <<index, files, today, next_id, evicted>>
procVars == <<index_file, qindex, dpc, qpc, captures, queries, recorded>>
diskVars == <<graph_file, tmp_files, qtemporal, disk_ops, writer>>
apiVars == <<retry>>
vars == <<temporal, lastCall, emitted, step, clock, index, files, today, next_id, evicted,
          index_file, qindex, dpc, qpc, captures, queries, recorded,
          graph_file, tmp_files, qtemporal, disk_ops, writer, retry>>

(***************************************************************************)
(* Python built-ins                                                        *)
(***************************************************************************)
None == << >>
Some(x) == <<x>>

Min(a, b) == IF a <= b THEN a ELSE b

Char(s, i) == SubSeq(s, i, i)
Drop(s, n) == SubSeq(s, n + 1, Len(s))
Take(s, n) == SubSeq(s, 1, Min(n, Len(s)))

UPPERCASE == "ABCDEFGHIJKLMNOPQRSTUVWXYZ"
LOWERCASE == "abcdefghijklmnopqrstuvwxyz"

UpperSet == {Char(UPPERCASE, i) : i \in 1..Len(UPPERCASE)}
LowerOf == [c \in UpperSet |->
              Char(LOWERCASE, CHOOSE i \in 1..Len(UPPERCASE) : Char(UPPERCASE, i) = c)]

LowerChar(c) == IF c \in UpperSet THEN LowerOf[c] ELSE c

\* str.lower()
RECURSIVE lower(_)
lower(s) == IF s = "" THEN "" ELSE LowerChar(Char(s, 1)) \o lower(Drop(s, 1))

IsSpace(c) == c = " "

\* str.lstrip(), str.rstrip(), str.strip()
RECURSIVE lstrip(_)
lstrip(s) == IF s # "" /\ IsSpace(Char(s, 1)) THEN lstrip(Drop(s, 1)) ELSE s

RECURSIVE rstrip(_)
rstrip(s) == IF s # "" /\ IsSpace(Char(s, Len(s))) THEN rstrip(Take(s, Len(s) - 1)) ELSE s

strip(s) == rstrip(lstrip(s))

\* str.rstrip(chars) for a one-character chars
RECURSIVE rstrip_char(_, _)
rstrip_char(s, c) ==
  IF s # "" /\ Char(s, Len(s)) = c THEN rstrip_char(Take(s, Len(s) - 1), c) ELSE s

startswith(s, prefix) == Len(prefix) <= Len(s) /\ Take(s, Len(prefix)) = prefix
endswith(s, suffix) == Len(suffix) <= Len(s) /\ Drop(s, Len(s) - Len(suffix)) = suffix

\* sub in s
contains(sub, s) == \E i \in 0..(Len(s) - Len(sub)) : SubSeq(s, i + 1, i + Len(sub)) = sub

\* str.replace(old, new): every non-overlapping occurrence, left to right
RECURSIVE replace(_, _, _)
replace(s, old, new) ==
  IF s = "" \/ old = "" THEN s
  ELSE IF startswith(s, old) THEN new \o replace(Drop(s, Len(old)), old, new)
  ELSE Char(s, 1) \o replace(Drop(s, 1), old, new)

\* str.split(): the whitespace-delimited tokens
RECURSIVE split_from(_, _)
split_from(s, word) ==
  IF s = "" THEN (IF word = "" THEN << >> ELSE <<word>>)
  ELSE IF IsSpace(Char(s, 1))
       THEN (IF word = "" THEN << >> ELSE <<word>>) \o split_from(Drop(s, 1), "")
       ELSE split_from(Drop(s, 1), word \o Char(s, 1))

split(s) == split_from(s, "")

\* str.split(sep) for a one-character sep: empty fields are kept
RECURSIVE split_on_from(_, _, _)
split_on_from(s, sep, field) ==
  IF s = "" THEN <<field>>
  ELSE IF Char(s, 1) = sep THEN <<field>> \o split_on_from(Drop(s, 1), sep, "")
  ELSE split_on_from(Drop(s, 1), sep, field \o Char(s, 1))

split_on(s, sep) == split_on_from(s, sep, "")

\* sep.join(parts)
RECURSIVE join(_, _)
join(sep, parts) ==
  IF parts = << >> THEN ""
  ELSE IF Len(parts) = 1 THEN parts[1]
  ELSE parts[1] \o sep \o join(sep, Tail(parts))

Range(f) == {f[i] : i \in DOMAIN f}

\* dict assignment d[k] = v
Put(d, k, v) == (k :> v) @@ d
\* del d[k] / d.pop(k, None)
Del(d, k) == [x \in (DOMAIN d) \ {k} |-> d[x]]
\* d.get(k, default)
Get(d, k, default) == IF k \in DOMAIN d THEN d[k] ELSE default
EmptyDict == [x \in {} |-> None]

(***************************************************************************)
(* Temporal Movement Graph                                                 *)
(***************************************************************************)
HISTORY_CAP == 100

\* TemporalGraph.__init__
NewTemporalGraph ==
  [last_seen |-> EmptyDict, movements |-> EmptyDict,
   attached_objects |-> EmptyDict, total_movements |-> 0]

LOCATION_PREFIXES == <<"indoor ", "outdoor ", "inside ", "the ">>
GENERIC_WORDS == <<"room", "space", "area", "indoor", "outdoor", "inside", "office", "workspace">>

RECURSIVE remove_prefixes(_, _)
remove_prefixes(loc, prefixes) ==
  IF prefixes = << >> THEN loc
  ELSE remove_prefixes(replace(loc, prefixes[1], ""), Tail(prefixes))

RECURSIVE remove_suffixes(_, _)
remove_suffixes(loc, suffixes) ==
  IF suffixes = << >> THEN loc
  ELSE remove_suffixes(
         IF endswith(loc, " " \o suffixes[1])
         THEN strip(Take(loc, Len(loc) - Len(suffixes[1]) - 1))
         ELSE loc,
         Tail(suffixes))

normalize_location(location) ==
  LET loc1 == strip(remove_prefixes(strip(lower(location)), LOCATION_PREFIXES))
  IN  IF loc1 \in Range(GENERIC_WORDS) \/ loc1 = "" THEN "generic"
      ELSE LET loc2 == remove_suffixes(loc1, GENERIC_WORDS)
           IN  IF loc2 \in Range(GENERIC_WORDS) \/ loc2 = "" THEN "generic" ELSE loc2

primary(p) ==
  IF contains("top", p) THEN "top" ELSE IF contains("bottom", p) THEN "bottom" ELSE "center"

secondary(p) ==
  IF contains("left", p) THEN "left" ELSE IF contains("right", p) THEN "right" ELSE "center"

\* a tie-break that reports a difference as soon as one axis disagrees
positions_different_either(pos1, pos2) ==
  LET p1 == lower(pos1)
      p2 == lower(pos2)
  IN  IF p1 = p2 THEN FALSE
      ELSE primary(p1) # primary(p2) \/ secondary(p1) # secondary(p2)

positions_different(pos1, pos2) ==
  LET p1 == lower(pos1)
      p2 == lower(pos2)
  IN  IF p1 = p2 THEN FALSE
      ELSE primary(p1) # primary(p2) /\ secondary(p1) # secondary(p2)

\* the wrong connective: a movement only when location AND position changed
movement_detected_and(prev_loc, prev_pos, location, position) ==
  /\ normalize_location(prev_loc) # normalize_location(location)
  /\ positions_different(prev_pos, position)

\* location_changed or position_changed
movement_detected(prev_loc, prev_pos, location, position) ==
  \/ normalize_location(prev_loc) # normalize_location(location)
  \/ positions_different(prev_pos, position)

\* a movement whose from-fields are those of the sighting that caused it
ObjectMovement_from_current(obj_name, prev, location, position, timestamp, memory_id) ==
  [object_name |-> obj_name,
   from_location |-> location, to_location |-> location,
   from_position |-> position, to_position |-> position,
   from_time |-> timestamp, to_time |-> timestamp,
   from_memory_id |-> memory_id, to_memory_id |-> memory_id]

ObjectMovement(obj_name, prev, location, position, timestamp, memory_id) ==
  [object_name |-> obj_name,
   from_location |-> prev[1], to_location |-> location,
   from_position |-> prev[2], to_position |-> position,
   from_time |-> prev[3], to_time |-> timestamp,
   from_memory_id |-> prev[4], to_memory_id |-> memory_id]

\* the history appended at the tail and cut from the front of the list
push_movement_tail(history, movement) == Take(Append(history, movement), HISTORY_CAP)

\* movements[obj].insert(0, movement); movements[obj] = movements[obj][:100]
push_movement(history, movement) == Take(<<movement>> \o history, HISTORY_CAP)

\* last_seen written only when the sighting is new or a movement was emitted
store_last_seen_on_move(last_seen, obj_name, entry, movement) ==
  IF obj_name \in DOMAIN last_seen /\ movement = None THEN last_seen
  ELSE Put(last_seen, obj_name, entry)

\* self.last_seen[obj_name] = (location, position, timestamp, memory_id)
store_last_seen(last_seen, obj_name, entry, movement) == Put(last_seen, obj_name, entry)

\* an update that counts every sighting of a known entity as a movement
update_counting_sightings(g, name, location, position, timestamp, memory_id) ==
  LET obj_name == lower(name)
      seen == obj_name \in DOMAIN g.last_seen
      prev == g.last_seen[obj_name]
      moved == seen /\ movement_detected(prev[1], prev[2], location, position)
      movement == IF moved
                  THEN Some(ObjectMovement(obj_name, prev, location, position, timestamp, memory_id))
                  ELSE None
      entry == <<location, position, timestamp, memory_id>>
  IN  [graph |->
         [g EXCEPT
            !.movements = IF moved
                          THEN Put(@, obj_name, push_movement(Get(@, obj_name, << >>), movement[1]))
                          ELSE @,
            !.total_movements = IF seen THEN @ + 1 ELSE @,
            !.last_seen = store_last_seen(@, obj_name, entry, movement)],
       movement |-> movement]

\* TemporalGraph.update: the graph afterwards and the value returned
update(g, name, location, position, timestamp, memory_id) ==
  LET obj_name == lower(name)
      seen == obj_name \in DOMAIN g.last_seen
      prev == g.last_seen[obj_name]
      moved == seen /\ movement_detected(prev[1], prev[2], location, position)
      movement == IF moved
                  THEN Some(ObjectMovement(obj_name, prev, location, position, timestamp, memory_id))
                  ELSE None
      entry == <<location, position, timestamp, memory_id>>
  IN  [graph |->
         [g EXCEPT
            !.movements = IF moved
                          THEN Put(@, obj_name, push_movement(Get(@, obj_name, << >>), movement[1]))
                          ELSE @,
            !.total_movements = IF moved THEN @ + 1 ELSE @,
            !.last_seen = store_last_seen(@, obj_name, entry, movement)],
       movement |-> movement]

\* TemporalGraph.get_history
get_history(g, obj_name, limit) == Take(Get(g.movements, lower(obj_name), << >>), limit)

\* TemporalGraph.get_last_location: None, or the tuple stored
get_last_location(g, obj_name) ==
  IF lower(obj_name) \in DOMAIN g.last_seen THEN Some(g.last_seen[lower(obj_name)]) ELSE None

\* TemporalGraph.mark_attached
mark_attached(g, obj_name, timestamp, location) ==
  [g EXCEPT !.attached_objects = Put(@, lower(obj_name), <<timestamp, location>>)]

ATTACH_TIMEOUT == 30

\* an entity dropped only once more than the timeout has passed
removed_attached_strictly_later(g, current_objects, current_time, timeout_seconds) ==
  {o \in DOMAIN g.attached_objects :
     /\ o \notin {lower(c) : c \in current_objects}
     /\ current_time - g.attached_objects[o][1] > timeout_seconds}

\* TemporalGraph.check_removed_attached: the entities dropped from the attached set
removed_attached(g, current_objects, current_time, timeout_seconds) ==
  {o \in DOMAIN g.attached_objects :
     /\ o \notin {lower(c) : c \in current_objects}
     /\ current_time - g.attached_objects[o][1] >= timeout_seconds}

check_removed_attached(g, current_objects, current_time, timeout_seconds) ==
  LET removed == removed_attached(g, current_objects, current_time, timeout_seconds)
  IN  [g EXCEPT !.attached_objects = [o \in (DOMAIN @) \ removed |-> @[o]]]

(***************************************************************************)
(* Persistence of the graph: temporal_graph.json.  A file that parses is   *)
(* [parses |-> TRUE, data |-> the JSON object]; a JSON array is            *)
(* [kind |-> "list", items |-> ...] and JSON null is [kind |-> "null"].    *)
(***************************************************************************)
MOVEMENT_FIELDS ==
  {"object_name", "from_location", "to_location", "from_position", "to_position",
   "from_time", "to_time", "from_memory_id", "to_memory_id"}

\* list(v) for a tuple v
list(v) == [kind |-> "list", items |-> v]

\* tuple(v) succeeds on a JSON array
is_iterable(v) == v.kind = "list"
tuple(v) == v.items

\* vars(m) for an ObjectMovement: the dict of its fields
vars_of(m) == [f \in DOMAIN m |-> m[f]]

\* ObjectMovement(**m) succeeds when the keys are exactly the fields
is_movement(m) == DOMAIN m = MOVEMENT_FIELDS

\* the data TemporalGraph.save dumps, without the attached_objects entry
graph_data_without_attached(g) ==
  [total_movements |-> g.total_movements,
   last_seen |-> [k \in DOMAIN g.last_seen |-> list(g.last_seen[k])],
   movements |-> [k \in DOMAIN g.movements |->
                    [i \in 1..Len(g.movements[k]) |-> vars_of(g.movements[k][i])]],
   attached_objects |-> EmptyDict]

\* the data TemporalGraph.save dumps
graph_data(g) ==
  [total_movements |-> g.total_movements,
   last_seen |-> [k \in DOMAIN g.last_seen |-> list(g.last_seen[k])],
   movements |-> [k \in DOMAIN g.movements |->
                    [i \in 1..Len(g.movements[k]) |-> vars_of(g.movements[k][i])]],
   attached_objects |-> [k \in DOMAIN g.attached_objects |-> list(g.attached_objects[k])]]

\* json5.dumps(data, indent=2), as json5.loads reads it back
dumps(data) == [parses |-> TRUE, data |-> data]

WRITE_STEPS == <<"write", "flush", "fsync", "replace">>

\* a write that opens the destination itself: a failure before the end
\* leaves it truncated or half written
write_in_place(dest, data, fail_at, unlink_fails) ==
  IF fail_at = "none" THEN [dest |-> Some(data), left |-> 0, raised |-> FALSE]
  ELSE [dest |-> IF fail_at = "replace" THEN Some(data) ELSE Some([parses |-> FALSE]),
        left |-> 0, raised |-> TRUE]

\* atomic_write_text(path, data) on a path holding dest.  fail_at is the step
\* that raises ("none" when none does) and unlink_fails says whether the
\* os.unlink of the handler raises OSError.  mkstemp has made the temp file;
\* only os.replace touches path, and it does so wholly or not at all.  The
\* result is what path holds afterwards, the temp files left behind, and
\* whether the call raised.
atomic_write_text(dest, data, fail_at, unlink_fails) ==
  IF fail_at = "none" THEN [dest |-> Some(data), left |-> 0, raised |-> FALSE]
  ELSE [dest |-> dest, left |-> IF unlink_fails THEN 1 ELSE 0, raised |-> TRUE]

\* atomic_write_text step by step.  A writer is [pc, tmp, data, before]: the
\* step it takes next, what its temp file holds, the text to write and what
\* path held when it started.  A file that holds only part of a text does
\* not parse.
begin_write(dest, data) ==
  [pc |-> "write", tmp |-> [parses |-> FALSE], data |-> data, before |-> dest]

\* the same steps taken on a file opened at path itself
write_step_in_place(w, dest) ==
  IF w.pc = "write" THEN [writer |-> [w EXCEPT !.pc = "flush"], dest |-> Some([parses |-> FALSE])]
  ELSE IF w.pc = "flush" THEN [writer |-> [w EXCEPT !.pc = "fsync"], dest |-> Some(w.data)]
  ELSE IF w.pc = "fsync" THEN [writer |-> [w EXCEPT !.pc = "replace"], dest |-> dest]
  ELSE [writer |-> [pc |-> "idle"], dest |-> dest]

\* f.write(data), f.flush(), os.fsync(f.fileno()), os.replace(tmp_path, path):
\* the writer and what path holds after the step
write_step(w, dest) ==
  IF w.pc = "write" THEN [writer |-> [w EXCEPT !.pc = "flush"], dest |-> dest]
  ELSE IF w.pc = "flush"
  THEN [writer |-> [w EXCEPT !.pc = "fsync", !.tmp = w.data], dest |-> dest]
  ELSE IF w.pc = "fsync" THEN [writer |-> [w EXCEPT !.pc = "replace"], dest |-> dest]
  ELSE [writer |-> [pc |-> "idle"], dest |-> Some(w.tmp)]

\* TemporalGraph.load: the graph afterwards.  An exception ends the method
\* where it is raised; the assignments made before it stay.
TemporalGraph_load(g, file) ==
  IF file = None THEN g
  ELSE IF ~file[1].parses THEN g
  ELSE LET data == file[1].data
           counted == [g EXCEPT !.total_movements = data.total_movements]
           seen == [counted EXCEPT !.last_seen =
                      [k \in DOMAIN data.last_seen |-> tuple(data.last_seen[k])]]
           moved == [seen EXCEPT !.movements = data.movements]
           attached == [moved EXCEPT !.attached_objects =
                          [k \in DOMAIN data.attached_objects |->
                             tuple(data.attached_objects[k])]]
       IN  IF \E k \in DOMAIN data.last_seen : ~is_iterable(data.last_seen[k]) THEN counted
           ELSE IF \E k \in DOMAIN data.movements :
                     \E i \in 1..Len(data.movements[k]) : ~is_movement(data.movements[k][i])
                THEN seen
           ELSE IF \E k \in DOMAIN data.attached_objects :
                     ~is_iterable(data.attached_objects[k])
                THEN moved
           ELSE attached

\* whether TemporalGraph.load fails on the file: it is missing, it does not
\* parse, or an entry is malformed
load_fails(file) ==
  \/ file = None
  \/ ~file[1].parses
  \/ LET data == file[1].data
     IN  \/ \E k \in DOMAIN data.last_seen : ~is_iterable(data.last_seen[k])
         \/ \E k \in DOMAIN data.movements :
              \E i \in 1..Len(data.movements[k]) : ~is_movement(data.movements[k][i])
         \/ \E k \in DOMAIN data.attached_objects : ~is_iterable(data.attached_objects[k])

(***************************************************************************)
(* Memory records and the Memory Index                                     *)
(*                                                                         *)
(* A Memory is [id, timestamp, location, objects, activities, people,      *)
(* persons]: objects are [name, context] detections and persons are        *)
(* [description, name] with name "" when no name was linked.  A memory id  *)
(* "mem_YYYYMMDD_HHMMSS" is the integer it sorts as, and a timestamp is a  *)
(* day number, negative when the stored text does not parse.               *)
(***************************************************************************)
Max(a, b) == IF a >= b THEN a ELSE b

\* sorted(ids, reverse=True)
RECURSIVE sorted_reverse(_)
sorted_reverse(ids) ==
  IF ids = {} THEN << >>
  ELSE LET newest == CHOOSE i \in ids : \A j \in ids : j <= i
       IN  <<newest>> \o sorted_reverse(ids \ {newest})

\* sorted(ids)
RECURSIVE sorted(_)
sorted(ids) ==
  IF ids = {} THEN << >>
  ELSE LET oldest == CHOOSE i \in ids : \A j \in ids : i <= j
       IN  <<oldest>> \o sorted(ids \ {oldest})

\* [f(x) for x in xs]
Names(objects) == [i \in 1..Len(objects) |-> objects[i].name]
Descriptions(persons) == [i \in 1..Len(persons) |-> persons[i].description]

\* MemoryIndex.__init__ before _load
NewIndex ==
  [by_object |-> EmptyDict, by_person |-> EmptyDict, by_activity |-> EmptyDict,
   memories |-> EmptyDict, access_log |-> EmptyDict]

\* bucket.setdefault(key, set()).add(mem_id)
AddToBucket(bucket, key, mem_id) == Put(bucket, key, Get(bucket, key, {}) \cup {mem_id})

\* the same for each key of a list in turn
RECURSIVE AddAll(_, _, _)
AddAll(bucket, keys, mem_id) ==
  IF keys = << >> THEN bucket
  ELSE AddAll(AddToBucket(bucket, keys[1], mem_id), Tail(keys), mem_id)

\* the cached metadata add() builds for a memory
MetaOf(memory) ==
  [timestamp |-> memory.timestamp,
   location |-> memory.location,
   objects |-> join(",", Names(memory.objects)),
   activities |-> join(",", memory.activities),
   people |-> join(",", memory.people),
   persons |-> join(";", Descriptions(memory.persons))]

\* the by_person keys add() files a visual person under: the linked name, then the description
RECURSIVE PersonKeys(_)
PersonKeys(persons) ==
  IF persons = << >> THEN << >>
  ELSE (IF persons[1].name # "" THEN <<lower(persons[1].name)>> ELSE << >>)
       \o (IF persons[1].description # "" THEN <<lower(persons[1].description)>> ELSE << >>)
       \o PersonKeys(Tail(persons))

Lowered(names) == [i \in 1..Len(names) |-> lower(names[i])]

\* MemoryIndex.add (save_now is the caller's separate write of the index file)
add(idx, memory) ==
  [idx EXCEPT
     !.memories = Put(@, memory.id, MetaOf(memory)),
     !.by_object = AddAll(@, Lowered(Names(memory.objects)), memory.id),
     !.by_activity = AddAll(@, Lowered(memory.activities), memory.id),
     !.by_person = AddAll(AddAll(@, Lowered(memory.people), memory.id),
                          PersonKeys(memory.persons), memory.id)]

\* [x.strip().lower() for x in text.split(sep) if x.strip().lower()]
RECURSIVE NonEmpty(_)
NonEmpty(parts) ==
  IF parts = << >> THEN << >>
  ELSE (IF parts[1] # "" THEN <<parts[1]>> ELSE << >>) \o NonEmpty(Tail(parts))

Stripped(names) == [i \in 1..Len(names) |-> lower(strip(names[i]))]
KeysOf(text, sep) == NonEmpty(Stripped(split_on(text, sep)))

\* MemoryIndex.record_access for one id
record_access_one(access_log, mem_id, now) ==
  Put(access_log, mem_id,
      [access_count |-> Get(access_log, mem_id, [access_count |-> 0]).access_count + 1,
       last_accessed |-> now])

\* MemoryIndex.record_access
RECURSIVE record_access(_, _, _)
record_access(idx, mem_ids, now) ==
  IF mem_ids = << >> THEN idx
  ELSE record_access([idx EXCEPT !.access_log = record_access_one(@, mem_ids[1], now)],
                     Tail(mem_ids), now)

(***************************************************************************)
(* Decay / retention scorer.  Scores are in millionths.  RECENCY[d + 1] is *)
(* math.exp(-0.693 * d / 7.0) for an age of d whole days, truncated to six *)
(* decimals.                                                               *)
(***************************************************************************)
RECENCY ==
  <<1000000, 905742, 820369, 743044, 673006, 609570, 552114, 500073, 452938,
    410245, 371576, 336552, 304830, 276097, 250073, 226502, 205152, 185815,
    168301, 152437, 138069, 125055, 113267, 102591, 92921, 84162, 76230,
    69044, 62536, 56642, 51303, 46467, 42087, 38120, 34527, 31273>>

UNDATED_AGE_DAYS == 30
BOOST_PER_ACCESS == 100000
BOOST_CAP == 1000000

\* a record without a valid timestamp taken for a new one
age_days_undated_new(idx, mem_id, now) ==
  LET ts == Get(idx.memories, mem_id, [timestamp |-> -1]).timestamp
  IN  IF ts < 0 THEN 0 ELSE now - ts

\* age_days, with the except branch for a timestamp that does not parse
age_days(idx, mem_id, now) ==
  LET ts == Get(idx.memories, mem_id, [timestamp |-> -1]).timestamp
  IN  IF ts < 0 THEN UNDATED_AGE_DAYS ELSE now - ts

retrieval_boost(access_count) == Min(access_count * BOOST_PER_ACCESS, BOOST_CAP)

\* MemoryIndex.decay_score
decay_score(idx, mem_id, now) ==
  RECENCY[age_days(idx, mem_id, now) + 1]
    + retrieval_boost(Get(idx.access_log, mem_id, [access_count |-> 0]).access_count)

(***************************************************************************)
(* Object lookup                                                           *)
(***************************************************************************)
OBJECT_SYNONYMS ==
  ("eyeglasses" :> "glasses") @@ ("eye glasses" :> "glasses") @@ ("spectacles" :> "glasses") @@
  ("specs" :> "glasses") @@ ("reading glasses" :> "glasses") @@ ("sunglasses" :> "glasses") @@
  ("mobile" :> "phone") @@ ("mobile phone" :> "phone") @@ ("cell phone" :> "phone") @@
  ("cellphone" :> "phone") @@ ("smartphone" :> "phone") @@ ("iphone" :> "phone") @@
  ("android" :> "phone") @@ ("mug" :> "cup") @@ ("coffee mug" :> "cup") @@
  ("coffee cup" :> "cup") @@ ("tea cup" :> "cup") @@ ("car keys" :> "keys") @@
  ("house keys" :> "keys") @@ ("key" :> "keys") @@ ("tv remote" :> "remote") @@
  ("remote control" :> "remote") @@ ("purse" :> "wallet") @@ ("billfold" :> "wallet") @@
  ("notebook" :> "laptop") @@ ("macbook" :> "laptop") @@ ("computer" :> "laptop") @@
  ("earphones" :> "headphones") @@ ("earbuds" :> "headphones") @@ ("airpods" :> "headphones")

SYNONYM_GROUPS ==
  [canonical \in Range(OBJECT_SYNONYMS) |->
     {canonical} \cup {syn \in DOMAIN OBJECT_SYNONYMS : OBJECT_SYNONYMS[syn] = canonical}]

\* the expansion that stops at the canonical form
search_terms_canonical_only(name) ==
  {name} \cup (IF name \in DOMAIN OBJECT_SYNONYMS THEN {OBJECT_SYNONYMS[name]} ELSE {})

\* the query, its canonical form and every synonym of its group
search_terms(name) ==
  {name}
    \cup (IF name \in DOMAIN OBJECT_SYNONYMS
          THEN {OBJECT_SYNONYMS[name]} \cup SYNONYM_GROUPS[OBJECT_SYNONYMS[name]]
          ELSE {})
    \cup (IF name \in DOMAIN SYNONYM_GROUPS THEN SYNONYM_GROUPS[name] ELSE {})

\* the exact pass: the union of the buckets of the terms that are keys
exact_matches(by_object, terms) ==
  UNION {by_object[term] : term \in terms \cap DOMAIN by_object}

\* substring matching in place of the controlled match
fuzzy_accepts_substring(key, term) == contains(term, key) \/ contains(key, term)

\* the controlled fuzzy test of one index key against one search term
fuzzy_accepts(key, term) ==
  \/ rstrip_char(key, "s") = rstrip_char(term, "s")
  \/ term \in Range(split(key))
  \/ key \in Range(split(term))

fuzzy_matches(by_object, terms) ==
  UNION {by_object[key] : key \in {k \in DOMAIN by_object : \E term \in terms : fuzzy_accepts(k, term)}}

\* a lookup that adds the fuzzy matches to the exact ones
find_by_object_fuzzy_too(idx, query) ==
  LET name == strip(lower(query))
      terms == search_terms(name)
  IN  sorted_reverse(exact_matches(idx.by_object, terms) \cup fuzzy_matches(idx.by_object, terms))

\* MemoryIndex.find_by_object
find_by_object(idx, query) ==
  LET name == strip(lower(query))
      terms == search_terms(name)
      matches == exact_matches(idx.by_object, terms)
  IN  IF matches # {} THEN sorted_reverse(matches)
      ELSE sorted_reverse(fuzzy_matches(idx.by_object, terms))

AllIds(bucket) == UNION {bucket[key] : key \in DOMAIN bucket}

\* MemoryIndex.find_by_person raises IndexError: the fuzzy loop takes
\* key.split()[0] of a key that is empty or all whitespace
find_by_person_raises(idx, query) ==
  LET name == strip(lower(query))
  IN  /\ name # ""
      /\ name \notin DOMAIN idx.by_person
      /\ \E k \in DOMAIN idx.by_person : split(k) = << >>

\* MemoryIndex.find_by_person, when it returns
find_by_person(idx, query) ==
  LET name == strip(lower(query))
  IN  IF name = "" THEN sorted_reverse(AllIds(idx.by_person))
      ELSE IF name \in DOMAIN idx.by_person THEN sorted_reverse(idx.by_person[name])
      ELSE sorted_reverse(UNION {idx.by_person[key] :
             key \in {k \in DOMAIN idx.by_person :
                        \/ contains(name, k) \/ contains(k, name)
                        \/ (split(k) # << >> /\ split(name)[1] = split(k)[1])}})

\* MemoryIndex.find_by_activity
find_by_activity(idx, query) ==
  LET activity == strip(lower(query))
  IN  IF activity = "" THEN sorted_reverse(AllIds(idx.by_activity))
      ELSE IF activity \in DOMAIN idx.by_activity THEN sorted_reverse(idx.by_activity[activity])
      ELSE sorted_reverse(UNION {idx.by_activity[key] :
             key \in {k \in DOMAIN idx.by_activity :
                        \/ contains(activity, k) \/ contains(k, activity)
                        \/ Range(split(activity)) \cap Range(split(k)) # {}}})

\* MemoryIndex.find_by_location
find_by_location(idx, text, n) ==
  LET location == lower(text)
  IN  Take(sorted_reverse({mem_id \in DOMAIN idx.memories :
             \/ contains(location, lower(idx.memories[mem_id].location))
             \/ contains(lower(idx.memories[mem_id].location), location)}), n)

\* MemoryIndex.find_by_time
find_by_time(idx, start, end, n) ==
  Take(sorted_reverse({mem_id \in DOMAIN idx.memories :
         /\ idx.memories[mem_id].timestamp >= 0
         /\ start <= idx.memories[mem_id].timestamp
         /\ idx.memories[mem_id].timestamp <= end}), n)

(***************************************************************************)
(* The retention score as the double decay_score returns.  SCORE_BITS[d][c + 1] *)
(* is math.exp(-0.693 * d / 7.0) + min(c * 0.1, 1.0) for an age of d whole  *)
(* days and c accesses: the 64 bits of the IEEE 754 result, written as     *)
(* their upper 22, middle 21 and lower 21 bits.  Doubles that are not      *)
(* negative are ordered as their bit patterns are.                         *)
(***************************************************************************)
SCORE_BITS ==
  (  0 :> <<<<1047552, 0, 0>>, <<1047654, 838860, 1677722>>, <<1047756,
       1677721, 1258291>>, <<1047859, 419430, 838861>>, <<1047961, 1258291,
       419430>>, <<1048064, 0, 0>>, <<1048166, 838860, 1677722>>, <<1048268,
       1677721, 1258292>>, <<1048371, 419430, 838861>>, <<1048473, 1258291,
       419430>>, <<1048576, 0, 0>>, <<1048576, 0, 0>>, <<1048576, 0, 0>>>>
  @@ 1 :> <<<<1047358, 2015501, 1156826>>, <<1047557, 1846611, 1207559>>,
       <<1047660, 588320, 788128>>, <<1047762, 1427181, 368698>>, <<1047865,
       168889, 2046420>>, <<1047967, 1007750, 1626989>>, <<1048069, 1846611,
       1207559>>, <<1048172, 588320, 788128>>, <<1048274, 1427181, 368698>>,
       <<1048377, 168889, 2046420>>, <<1048479, 1007750, 1626989>>, <<1048479,
       1007750, 1626989>>, <<1048479, 1007750, 1626989>>>>
  @@ 7 :> <<<<1046528, 316091, 223239>>, <<1046732, 1993812, 1481530>>,
       <<1046937, 1574382, 642670>>, <<1047142, 1154951, 1900961>>, <<1047347,
       735521, 1062100>>, <<1047552, 158045, 1160196>>, <<1047654, 996906,
       740766>>, <<1047756, 1835767, 321335>>, <<1047859, 577475, 1999056>>,
       <<1047961, 1416336, 1579626>>, <<1048064, 158045, 1160196>>, <<1048064,
       158045, 1160196>>, <<1048064, 158045, 1160196>>>>
  @@ 30 :> <<<<1043089, 224128, 1749246>>, <<1044695, 999750, 1276172>>,
       <<1045509, 709590, 1057517>>, <<1045918, 1967881, 1476948>>, <<1046328,
       1129020, 1896378>>, <<1046633, 145080, 109328>>, <<1046837, 1822801,
       1367620>>, <<1047042, 1403371, 528759>>, <<1047247, 983940, 1787050>>,
       <<1047452, 564510, 948189>>, <<1047604, 1121116, 54664>>, <<1047604,
       1121116, 54664>>, <<1047604, 1121116, 54664>>>>
  @@ 100 :> <<<<1032851, 1222549, 1691619>>, <<1044071, 465697, 1568980>>,
       <<1045094, 1700855, 574775>>, <<1045709, 11566, 1755394>>, <<1046118,
       1269858, 77672>>, <<1046528, 215498, 1297127>>, <<1046732, 1893220,
       458267>>, <<1046937, 1473789, 1716558>>, <<1047142, 1054359, 877697>>,
       <<1047347, 634929, 38836>>, <<1047552, 107749, 648564>>, <<1047552,
       107749, 648564>>, <<1047552, 107749, 648564>>>>
  @@ 365 :> <<<<994125, 445163, 223817>>, <<1044070, 838860, 1677737>>,
       <<1045094, 838860, 1677729>>, <<1045708, 1677721, 1258296>>, <<1046118,
       838860, 1677726>>, <<1046528, 0, 2>>, <<1046732, 1677721, 1258294>>,
       <<1046937, 1258291, 419433>>, <<1047142, 838860, 1677724>>, <<1047347,
       419430, 838863>>, <<1047552, 0, 1>>, <<1047552, 0, 1>>, <<1047552, 0,
       1>>>>
  @@ 400 :> <<<<989006, 1233828, 349139>>, <<1044070, 838860, 1677722>>,
       <<1045094, 838860, 1677722>>, <<1045708, 1677721, 1258292>>, <<1046118,
       838860, 1677722>>, <<1046528, 0, 0>>, <<1046732, 1677721, 1258292>>,
       <<1046937, 1258291, 419431>>, <<1047142, 838860, 1677722>>, <<1047347,
       419430, 838861>>, <<1047552, 0, 0>>, <<1047552, 0, 0>>, <<1047552, 0,
       0>>>>
  @@ 800 :> <<<<930476, 1143520, 1555540>>, <<1044070, 838860, 1677722>>,
       <<1045094, 838860, 1677722>>, <<1045708, 1677721, 1258292>>, <<1046118,
       838860, 1677722>>, <<1046528, 0, 0>>, <<1046732, 1677721, 1258292>>,
       <<1046937, 1258291, 419431>>, <<1047142, 838860, 1677722>>, <<1047347,
       419430, 838861>>, <<1047552, 0, 0>>, <<1047552, 0, 0>>, <<1047552, 0,
       0>>>>)

ScoreAges == DOMAIN SCORE_BITS

\* a < b for two doubles that are not negative
double_less(a, b) ==
  \/ a[1] < b[1]
  \/ a[1] = b[1] /\ a[2] < b[2]
  \/ a[1] = b[1] /\ a[2] = b[2] /\ a[3] < b[3]

\* recency + retrieval_boost, in double arithmetic
score_at(age, access_count) == SCORE_BITS[age][access_count + 1]

\* MemoryIndex.decay_score, the double returned
decay_score_double(idx, mem_id, now) ==
  score_at(age_days(idx, mem_id, now),
           Get(idx.access_log, mem_id, [access_count |-> 0]).access_count)

(***************************************************************************)
(* Persistence of the index: memory_index.json and the scan of MEMORY_DIR  *)
(***************************************************************************)
\* MemoryIndex._save: the JSON written, atomically, to memory_index.json
save(idx) == [memories |-> idx.memories, access_log |-> idx.access_log]

\* _load: the four index loops for one memory of the cached metadata
index_cached(idx, mem_id, meta) ==
  [idx EXCEPT
     !.by_object = AddAll(@, KeysOf(meta.objects, ","), mem_id),
     !.by_person = AddAll(AddAll(@, KeysOf(meta.people, ","), mem_id),
                          KeysOf(meta.persons, ";"), mem_id),
     !.by_activity = AddAll(@, KeysOf(meta.activities, ","), mem_id)]

RECURSIVE index_all_cached(_, _)
index_all_cached(idx, mem_ids) ==
  IF mem_ids = << >> THEN idx
  ELSE index_all_cached(index_cached(idx, mem_ids[1], idx.memories[mem_ids[1]]), Tail(mem_ids))

\* _rebuild_from_files: one mem_*.json, skipped when its id is already cached
index_scanned(idx, memory) ==
  IF memory.id \in DOMAIN idx.memories THEN idx
  ELSE [idx EXCEPT
          !.memories = Put(@, memory.id, MetaOf(memory)),
          !.by_object = AddAll(@, NonEmpty(Stripped(Names(memory.objects))), memory.id),
          !.by_person = AddAll(AddAll(@, NonEmpty(Stripped(memory.people)), memory.id),
                               NonEmpty(Stripped(Descriptions(memory.persons))), memory.id),
          !.by_activity = AddAll(@, NonEmpty(Stripped(memory.activities)), memory.id)]

RECURSIVE index_all_scanned(_, _, _)
index_all_scanned(idx, dir, mem_ids) ==
  IF mem_ids = << >> THEN idx
  ELSE index_all_scanned(index_scanned(idx, dir[mem_ids[1]]), dir, Tail(mem_ids))

\* MemoryIndex._rebuild_from_files
rebuild_from_files(idx, dir) == index_all_scanned(idx, dir, sorted(DOMAIN dir))

\* MemoryIndex._load: memories and access_log are replaced by those of the
\* file when there is one; the directory is scanned when it cached nothing
load(idx, file, dir) ==
  IF file # None
  THEN LET loaded == index_all_cached(
                       [idx EXCEPT !.memories = file[1].memories,
                                   !.access_log = file[1].access_log],
                       sorted(DOMAIN file[1].memories))
       IN  IF DOMAIN loaded.memories # {} THEN loaded ELSE rebuild_from_files(loaded, dir)
  ELSE rebuild_from_files(idx, dir)

\* a reload that replays the index file and does not scan for newer files
reload_index_file_only(idx, file, dir) ==
  load([idx EXCEPT !.by_object = EmptyDict, !.by_activity = EmptyDict,
                   !.by_person = EmptyDict, !.memories = EmptyDict],
       file, dir)

\* MemoryIndex.reload
reload(idx, file, dir) ==
  rebuild_from_files(
    load([idx EXCEPT !.by_object = EmptyDict, !.by_activity = EmptyDict,
                     !.by_person = EmptyDict, !.memories = EmptyDict],
         file, dir),
    dir)

(***************************************************************************)
(* Cleanup / eviction.  dir is MEMORY_DIR: id -> the Memory saved there.   *)
(***************************************************************************)
\* bool(index): an index was passed and, MemoryIndex defining __len__, it
\* caches at least one memory
truthy(idx, provided) == provided /\ DOMAIN idx.memories # {}

\* the sort reversed: the highest scores first
RECURSIVE sort_by_score_descending(_, _)
sort_by_score_descending(ids, score) ==
  IF ids = {} THEN << >>
  ELSE LET first == CHOOSE i \in ids :
                      \A j \in ids : score[i] > score[j] \/ (score[i] = score[j] /\ i <= j)
       IN  <<first>> \o sort_by_score_descending(ids \ {first}, score)

\* scored.sort(key=score) on the files in name order: ascending score, and
\* among equal scores the older file first (the sort is stable)
RECURSIVE sort_by_score(_, _)
sort_by_score(ids, score) ==
  IF ids = {} THEN << >>
  ELSE LET first == CHOOSE i \in ids :
                      \A j \in ids : score[i] < score[j] \/ (score[i] = score[j] /\ i <= j)
       IN  <<first>> \o sort_by_score(ids \ {first}, score)

\* one file too many deleted
to_delete_one_more(count, max_memories) == count - max_memories + 1

\* to_delete = len(memory_files) - MAX_MEMORIES
to_delete_count(count, max_memories) == count - max_memories

\* candidates picked by score whether or not the index can be used
cleanup_candidates_scored(dir, idx, provided, now, max_memories) ==
  LET ids == DOMAIN dir
      to_delete == to_delete_count(Cardinality(ids), max_memories)
      score == [i \in ids |-> decay_score(idx, i, now)]
  IN  IF Cardinality(ids) <= max_memories THEN << >>
      ELSE Take(sort_by_score(ids, score), to_delete)

\* the files cleanup_old_memories picks for deletion, in the order it deletes them
cleanup_candidates(dir, idx, provided, now, max_memories) ==
  LET ids == DOMAIN dir
      to_delete == to_delete_count(Cardinality(ids), max_memories)
      score == [i \in ids |-> decay_score(idx, i, now)]
  IN  IF Cardinality(ids) <= max_memories THEN << >>
      ELSE IF truthy(idx, provided) THEN Take(sort_by_score(ids, score), to_delete)
      ELSE Take(sorted(ids), to_delete)

\* by_object[obj].discard(mem_id) for the object names cached for the memory
discard_objects(by_object, meta, mem_id) ==
  [key \in DOMAIN by_object |->
     IF key \in Range(KeysOf(meta.objects, ",")) THEN by_object[key] \ {mem_id}
     ELSE by_object[key]]

\* the index bookkeeping of the loop body for one deleted candidate
forget(idx, provided, mem_id) ==
  LET known == provided /\ mem_id \in DOMAIN idx.memories
      dropped == IF known
                 THEN [idx EXCEPT !.by_object = discard_objects(@, idx.memories[mem_id], mem_id),
                                  !.memories = Del(@, mem_id)]
                 ELSE idx
  IN  IF truthy(dropped, provided) THEN [dropped EXCEPT !.access_log = Del(@, mem_id)]
      ELSE dropped

\* a loop that leaves alone the file of a memory the index does not cache
RECURSIVE delete_candidates_cached_only(_, _, _, _)
delete_candidates_cached_only(dir, idx, provided, candidates) ==
  IF candidates = << >> THEN [files |-> dir, index |-> idx]
  ELSE delete_candidates_cached_only(
         IF candidates[1] \in DOMAIN idx.memories THEN Del(dir, candidates[1]) ELSE dir,
         forget(idx, provided, candidates[1]), provided, Tail(candidates))

\* the loop over the candidates: both files unlinked, then the bookkeeping
RECURSIVE delete_candidates(_, _, _, _)
delete_candidates(dir, idx, provided, candidates) ==
  IF candidates = << >> THEN [files |-> dir, index |-> idx]
  ELSE delete_candidates(Del(dir, candidates[1]), forget(idx, provided, candidates[1]),
                         provided, Tail(candidates))

\* cleanup_old_memories: the directory and the index afterwards, and the count returned
cleanup_old_memories(dir, idx, provided, now, max_memories) ==
  LET candidates == cleanup_candidates(dir, idx, provided, now, max_memories)
      after == delete_candidates(dir, idx, provided, candidates)
  IN  [files |-> after.files, index |-> after.index, deleted |-> Len(candidates)]

(***************************************************************************)
(* Query dispatcher: the object path                                       *)
(***************************************************************************)
IN_HAND_CONTEXTS == <<"in hand", "held", "holding", "carrying", "gripping">>
HISTORY_LIMIT == 10

\* load_memory: None when mem_<id>.json is not there
load_memory(dir, mem_id) == IF mem_id \in DOMAIN dir THEN Some(dir[mem_id]) ELSE None

\* Memory.find_object: the first detection whose name contains the name asked for
RECURSIVE Memory_find_object(_, _)
Memory_find_object(objects, name) ==
  IF objects = << >> THEN None
  ELSE IF contains(lower(name), lower(objects[1].name)) THEN Some(objects[1])
  ELSE Memory_find_object(Tail(objects), name)

\* any(hint in ctx_lower for hint in IN_HAND_CONTEXTS)
in_hand(context) ==
  \E i \in 1..Len(IN_HAND_CONTEXTS) : contains(IN_HAND_CONTEXTS[i], lower(context))

\* the test that makes the placed filter skip a candidate
skipped_as_held(dir, mem_id, search_entity) ==
  LET mem == load_memory(dir, mem_id)
      obj == IF mem # None THEN Memory_find_object(mem[1].objects, search_entity) ELSE None
  IN  /\ mem # None
      /\ obj # None
      /\ obj[1].context # ""
      /\ in_hand(obj[1].context)

\* placed_mem_ids: the candidates the filter keeps, in order
RECURSIVE placed_mem_ids(_, _, _)
placed_mem_ids(dir, mem_ids, search_entity) ==
  IF mem_ids = << >> THEN << >>
  ELSE (IF skipped_as_held(dir, mem_ids[1], search_entity) THEN << >> ELSE <<mem_ids[1]>>)
       \o placed_mem_ids(dir, Tail(mem_ids), search_entity)

\* in_hand_memory: the first candidate the filter skipped
RECURSIVE in_hand_memory(_, _, _)
in_hand_memory(dir, mem_ids, search_entity) ==
  IF mem_ids = << >> THEN None
  ELSE IF skipped_as_held(dir, mem_ids[1], search_entity) THEN load_memory(dir, mem_ids[1])
  ELSE in_hand_memory(dir, Tail(mem_ids), search_entity)

\* find_object with query_type "object": the index afterwards, the memory
\* returned, and whether the second component carries the only_in_hand marker
find_object(idx, g, dir, search_entity, placed, now) ==
  LET found == find_by_object(idx, search_entity)
      kept == placed_mem_ids(dir, found, search_entity)
      held == in_hand_memory(dir, found, search_entity)
      movements == get_history(g, search_entity, HISTORY_LIMIT)
  IN  IF placed /\ found # << >> /\ kept = << >> /\ held # None
      THEN [index |-> idx, memory |-> held, outcome |-> "only_in_hand", movements |-> movements]
      ELSE LET mem_ids == IF placed /\ found # << >> /\ kept # << >> THEN kept ELSE found
           IN  [index |-> IF mem_ids # << >> THEN record_access(idx, Take(mem_ids, 1), now)
                          ELSE idx,
                memory |-> IF mem_ids # << >> THEN load_memory(dir, mem_ids[1]) ELSE None,
                outcome |-> "location",
                movements |-> movements]

(***************************************************************************)
(* Query dispatcher: every query type.  Times are whole days, as in the    *)
(* index; the "last N hours / minutes" forms of parse_time_entity are not  *)
(* among the expressions asked here.                                       *)
(***************************************************************************)
TIME_LIMIT == 20
COOCCURRENCE_LIMIT == 10
ACCESS_BATCH == 5
LOAD_BATCH == 10
LOCATION_LIMIT == 10

\* parse_time_entity: the window of a time expression
parse_time_entity(entity, now) ==
  LET e == strip(lower(entity))
  IN  IF e \in {"this morning", "this afternoon", "this evening", "tonight", "today"}
      THEN <<now, now>>
      ELSE <<now - 1, now>>

\* [o.strip() for o in text.split(",") if o.strip()]
object_names(text) ==
  LET parts == split_on(text, ",")
  IN  NonEmpty([i \in 1..Len(parts) |-> strip(parts[i])])

\* the names find_cooccurrence keeps beside the entity asked for
others_than(names, entity_lower) ==
  LET Other(o) == /\ lower(o) # entity_lower
                  /\ rstrip_char(lower(o), "s") # rstrip_char(entity_lower, "s")
  IN  SelectSeq(names, Other)

\* MemoryIndex.find_cooccurrence
RECURSIVE cooccurrences_of(_, _, _)
cooccurrences_of(idx, mem_ids, entity_lower) ==
  IF mem_ids = << >> THEN << >>
  ELSE LET meta == Get(idx.memories, mem_ids[1], [objects |-> ""])
           others == others_than(object_names(meta.objects), entity_lower)
       IN  (IF others # << >> THEN << <<mem_ids[1], others>> >> ELSE << >>)
           \o cooccurrences_of(idx, Tail(mem_ids), entity_lower)

find_cooccurrence(idx, entity) ==
  LET entity_lower == strip(lower(entity))
  IN  cooccurrences_of(idx, Take(find_by_object(idx, entity_lower), COOCCURRENCE_LIMIT),
                       entity_lower)

\* [m for m in [load_memory(mid) for mid in mem_ids] if m is not None]
RECURSIVE load_memories(_, _)
load_memories(dir, mem_ids) ==
  IF mem_ids = << >> THEN << >>
  ELSE load_memory(dir, mem_ids[1]) \o load_memories(dir, Tail(mem_ids))

\* the names of the memories' people (or activities) that contain the entity
found_in(memories, field, search_entity) ==
  {p \in UNION {Range(memories[i][field]) : i \in 1..Len(memories)} :
     search_entity = "" \/ contains(lower(search_entity), lower(p))}

\* find_object lets an exception of a lookup through: only the person lookup has one
find_object_raises(idx, query_type, search_entity) ==
  query_type = "person" /\ find_by_person_raises(idx, search_entity)

\* what find_object hands back, or the exception it lets through
Returned(idx, kind, first, second) ==
  [raised |-> FALSE, index |-> idx, kind |-> kind, first |-> first, second |-> second]
Raised(idx, exception) ==
  [raised |-> TRUE, index |-> idx, kind |-> exception, first |-> None, second |-> << >>]

\* the paths of find_object that answer with a list of memories
memories_found(idx, memories, mem_ids, field, search_entity, now) ==
  Returned(record_access(idx, Take(mem_ids, ACCESS_BATCH), now), "memories", memories,
           IF field = "" THEN {} ELSE found_in(memories, field, search_entity))

find_memories(idx, dir, mem_ids, field, search_entity, now) ==
  memories_found(idx, load_memories(dir, Take(mem_ids, LOAD_BATCH)), mem_ids, field,
                 search_entity, now)

\* the first memory of a lookup, when there is one
first_memory(dir, mem_ids) == IF mem_ids # << >> THEN load_memory(dir, mem_ids[1]) ELSE None

\* the "near" path, given the lookup's result
find_near(idx, dir, mem_ids, search_entity, now) ==
  Returned(record_access(idx, Take(mem_ids, 1), now), "memory", first_memory(dir, mem_ids),
           find_cooccurrence(idx, search_entity))

\* the "vqa" path, given the lookup's result and the memory loaded for it (a
\* record that loads comes with its image; the answer itself is the model's)
find_vqa(idx, mem_ids, memory, gemini, now) ==
  IF ~gemini THEN Returned(idx, "message", None, "VQA requires Gemini client.")
  ELSE IF memory # None
  THEN Returned(record_access(idx, Take(mem_ids, 1), now), "answer", memory, "answer")
  ELSE Returned(record_access(idx, Take(mem_ids, 1), now), "message", None,
                "Object not found in memory.")

\* a scene path that answers with the oldest match
find_scene_oldest(idx, dir, mem_ids, now) ==
  Returned(record_access(idx, Take(mem_ids, 1), now), "memory",
           load_memory(dir, mem_ids[Len(mem_ids)]), << >>)

\* the "scene" path when the location lookup found something
find_scene(idx, dir, mem_ids, now) ==
  Returned(record_access(idx, Take(mem_ids, 1), now), "memory", first_memory(dir, mem_ids), << >>)

\* the "object" path, which an unmatched scene query falls through to
find_located(r) == Returned(r.index, r.outcome, r.memory, r.movements)

\* find_object, for any query type, given the results of the index lookups
find_object_routed(idx, g, dir, query_type, entity, gemini, placed, now, by_object, by_location) ==
  IF find_object_raises(idx, query_type, entity) THEN Raised(idx, "IndexError")
  ELSE IF query_type = "time"
  THEN find_memories(idx, dir,
                     find_by_time(idx, parse_time_entity(entity, now)[1],
                                  parse_time_entity(entity, now)[2], TIME_LIMIT),
                     "", entity, now)
  ELSE IF query_type = "near" THEN find_near(idx, dir, by_object, entity, now)
  ELSE IF query_type = "person"
  THEN find_memories(idx, dir, find_by_person(idx, entity), "people", entity, now)
  ELSE IF query_type = "activity"
  THEN find_memories(idx, dir, find_by_activity(idx, entity), "activities",
                     entity, now)
  ELSE IF query_type = "vqa"
  THEN find_vqa(idx, by_object, first_memory(dir, by_object), gemini, now)
  ELSE IF query_type = "scene" /\ by_location # << >>
  THEN find_scene(idx, dir, by_location, now)
  ELSE find_located(find_object(idx, g, dir, entity, placed, now))

\* find_object, for any query type
find_object_typed(idx, g, dir, query_type, search_entity, gemini, placed, now) ==
  find_object_routed(idx, g, dir, query_type, search_entity, gemini, placed, now,
                     find_by_object(idx, search_entity),
                     find_by_location(idx, search_entity, LOCATION_LIMIT))

(***************************************************************************)
(* parse_time_entity on datetimes.  A datetime is [day, second]: the day's  *)
(* proleptic ordinal (1 is 0001-01-01, the day of datetime.min) and the    *)
(* second of that day; microseconds are not kept.                          *)
(***************************************************************************)
DIGITS == "0123456789"

IsDigit(c) == \E i \in 1..Len(DIGITS) : Char(DIGITS, i) = c

DigitValue(c) == (CHOOSE i \in 1..Len(DIGITS) : Char(DIGITS, i) = c) - 1

\* the run of digits \d+ consumes at the head of s
RECURSIVE leading_digits(_)
leading_digits(s) ==
  IF s # "" /\ IsDigit(Char(s, 1)) THEN Char(s, 1) \o leading_digits(Drop(s, 1)) ELSE ""

\* int(m.group(1))
RECURSIVE int_of(_, _)
int_of(digits, value) ==
  IF digits = "" THEN value ELSE int_of(Drop(digits, 1), 10 * value + DigitValue(Char(digits, 1)))

\* re.match(r'(?:last|past)\s+(\d+)\s+<unit>s?', entity): group 1, or None
relative_amount(entity, unit) ==
  IF ~(startswith(entity, "last") \/ startswith(entity, "past")) THEN None
  ELSE LET after_word == Drop(entity, 4)
           digits == leading_digits(lstrip(after_word))
           after_digits == Drop(lstrip(after_word), Len(digits))
       IN  IF /\ after_word # "" /\ IsSpace(Char(after_word, 1))
              /\ digits # ""
              /\ after_digits # "" /\ IsSpace(Char(after_digits, 1))
              /\ startswith(lstrip(after_digits), unit)
           THEN Some(int_of(digits, 0))
           ELSE None

\* today_start.replace(hour=..., minute=..., second=...)
at_time(midnight, hour, minute, second) ==
  [day |-> midnight.day, second |-> 3600 * hour + 60 * minute + second]

\* dt - timedelta(days=days, seconds=seconds), with seconds below one day
minus_timedelta(dt, days, seconds) ==
  IF dt.second >= seconds THEN [day |-> dt.day - days, second |-> dt.second - seconds]
  ELSE [day |-> dt.day - days - 1, second |-> dt.second - seconds + 86400]

WindowOf(start, end) == [raised |-> FALSE, start |-> start, end |-> end]

\* (now - timedelta(...), now) for a number of whole units; the subtraction
\* raises OverflowError when the start would lie before datetime.min
trailing_window(now, amount, per_day, unit_seconds) ==
  IF minus_timedelta(now, amount \div per_day, (amount % per_day) * unit_seconds).day < 1
  THEN [raised |-> TRUE, start |-> now, end |-> now]
  ELSE WindowOf(minus_timedelta(now, amount \div per_day, (amount % per_day) * unit_seconds), now)

\* the keyword branches of parse_time_entity
named_window(entity, now, today_start) ==
  IF entity = "this morning"
  THEN WindowOf(at_time(today_start, 6, 0, 0), at_time(today_start, 12, 0, 0))
  ELSE IF entity = "this afternoon"
  THEN WindowOf(at_time(today_start, 12, 0, 0), at_time(today_start, 18, 0, 0))
  ELSE IF entity \in {"this evening", "tonight"}
  THEN WindowOf(at_time(today_start, 18, 0, 0), at_time(today_start, 23, 59, 59))
  ELSE IF entity = "today" THEN WindowOf(today_start, now)
  ELSE IF entity = "yesterday"
  THEN WindowOf(minus_timedelta(today_start, 1, 0), today_start)
  ELSE IF entity \in {"last hour", "past hour"} THEN trailing_window(now, 1, 24, 3600)
  ELSE IF entity = "last night"
  THEN WindowOf(at_time(minus_timedelta(today_start, 1, 0), 20, 0, 0),
                at_time(today_start, 6, 0, 0))
  ELSE trailing_window(now, 24, 24, 3600)

\* parse_time_entity, given the entity lower-cased and stripped
parse_time_lowered(entity, now) ==
  IF relative_amount(entity, "hour") # None
  THEN trailing_window(now, relative_amount(entity, "hour")[1], 24, 3600)
  ELSE IF relative_amount(entity, "minute") # None
  THEN trailing_window(now, relative_amount(entity, "minute")[1], 1440, 60)
  ELSE named_window(entity, now, [day |-> now.day, second |-> 0])

\* parse_time_entity(entity) called at the datetime now
parse_time_window(entity, now) == parse_time_lowered(strip(lower(entity)), now)

(***************************************************************************)
(* retry_api_call.  The call under way is [pc, max_retries, attempt,       *)
(* backoff, calls, errors, sleep_time]: calls counts the invocations of    *)
(* func, errors lists what they raised; backoff is in seconds and          *)
(* sleep_time in hundredths of a second.                                   *)
(***************************************************************************)
MAX_RETRIES == 3
INITIAL_BACKOFF == 1
MAX_BACKOFF == 16

RETRYABLE_MARKS == <<"429", "rate", "quota", "503", "overloaded", "resource exhausted">>

\* an error test that retries whatever was raised
is_retryable_always(error) == TRUE

\* is_retryable: the lower-cased message holds one of the marks
is_retryable(error) ==
  \E i \in 1..Len(RETRYABLE_MARKS) : contains(RETRYABLE_MARKS[i], lower(error))

\* retry_api_call(func, max_retries=max_retries) up to the loop
begin_retry(max_retries) ==
  [pc |-> IF 0 < max_retries + 1 THEN "call" ELSE "returned", max_retries |-> max_retries,
   attempt |-> 0, backoff |-> INITIAL_BACKOFF, calls |-> 0, errors |-> << >>, sleep_time |-> 0]

\* func(*args, **kwargs) returned
call_returned(r) == [r EXCEPT !.pc = "returned", !.calls = r.calls + 1]

\* func(*args, **kwargs) raised error; jitter is 100 * (0.5 + random.random())
call_raised(r, error, jitter) ==
  IF ~is_retryable(error) \/ r.attempt >= r.max_retries
  THEN [r EXCEPT !.pc = "raised", !.calls = r.calls + 1, !.errors = Append(r.errors, error)]
  ELSE [r EXCEPT !.pc = "sleep", !.calls = r.calls + 1, !.errors = Append(r.errors, error),
                 !.sleep_time = Min(r.backoff * jitter, 100 * MAX_BACKOFF)]

\* time.sleep(sleep_time) returned: backoff *= 2 and the next turn of the loop,
\* or raise last_exception when the range is used up
slept(r) ==
  [r EXCEPT !.pc = IF r.attempt + 1 < r.max_retries + 1 THEN "call" ELSE "raised",
            !.attempt = r.attempt + 1, !.backoff = 2 * r.backoff]

(***************************************************************************)
(* Ingestion pipeline: analyze_and_store from the object loop on.  A       *)
(* detection is [label, confidence, attached, context, position]:          *)
(* confidence in percent, position the grid cell of its box.               *)
(***************************************************************************)
MIN_CONFIDENCE == 50

\* BoundingBox(name=..., confidence=..., context=...)
BoundingBox(obj) ==
  [name |-> obj.label, context |-> obj.context, confidence |-> obj.confidence,
   position |-> obj.position]

\* a pipeline that tracks worn objects like any other
is_attached_never(obj) == FALSE

\* is_attached = obj.get("attached", False)
is_attached(obj) == obj.attached

\* the attached branch: mark_attached, then last_seen written under bbox.name as it is
track_attached(g, bbox, location, timestamp, memory_id) ==
  [mark_attached(g, bbox.name, timestamp, location) EXCEPT
     !.last_seen = Put(@, bbox.name, <<location, bbox.position, timestamp, memory_id>>)]

\* the loop's state after a worn object
attached_seen(acc, bbox, location, timestamp, memory_id) ==
  [acc EXCEPT !.objects = Append(@, bbox),
              !.graph = track_attached(@, bbox, location, timestamp, memory_id)]

\* the loop's state after a useful object and its temporal.update
tracked(acc, bbox, r) ==
  [acc EXCEPT !.objects = Append(@, bbox),
              !.useful = @ + 1,
              !.graph = r.graph,
              !.movements = @ \o r.movement]

\* one pass of the object loop
ingest_detection(acc, obj, location, timestamp, memory_id) ==
  IF obj.confidence < MIN_CONFIDENCE THEN acc
  ELSE IF is_attached(obj)
  THEN attached_seen(acc, BoundingBox(obj), location, timestamp, memory_id)
  ELSE tracked(acc, BoundingBox(obj),
               update(acc.graph, obj.label, location, obj.position, timestamp, memory_id))

\* for obj in analysis["objects"]
RECURSIVE ingest_detections(_, _, _, _, _)
ingest_detections(acc, objects, location, timestamp, memory_id) ==
  IF objects = << >> THEN acc
  ELSE ingest_detections(ingest_detection(acc, objects[1], location, timestamp, memory_id),
                         Tail(objects), location, timestamp, memory_id)

\* all_visible: the label of every detection of the analysis
all_visible(objects) == {objects[i].label : i \in 1..Len(objects)}

\* the Memory the capture becomes
captured_memory(analysis, objects, timestamp, memory_id) ==
  [id |-> memory_id, timestamp |-> timestamp, location |-> analysis.location,
   objects |-> objects, activities |-> << >>, people |-> << >>, persons |-> << >>]

\* after the loop: check_removed_attached, then save_metadata and index.add
\* unless no useful object was seen
store_capture(idx, dir, acc, graph, memory) ==
  [graph |-> graph, memory |-> memory, useful |-> acc.useful, movements |-> acc.movements,
   was_saved |-> acc.useful # 0,
   index |-> IF acc.useful = 0 THEN idx ELSE add(idx, memory),
   files |-> IF acc.useful = 0 THEN dir ELSE Put(dir, memory.id, memory)]

after_loop(idx, dir, acc, analysis, timestamp, memory_id) ==
  store_capture(idx, dir, acc,
                check_removed_attached(acc.graph, all_visible(analysis.objects), timestamp,
                                       ATTACH_TIMEOUT),
                captured_memory(analysis, acc.objects, timestamp, memory_id))

\* analyze_and_store
analyze_and_store(g, idx, dir, analysis, timestamp, memory_id) ==
  after_loop(idx, dir,
             ingest_detections([graph |-> g, objects |-> << >>, useful |-> 0,
                                movements |-> << >>],
                               analysis.objects, analysis.location, timestamp, memory_id),
             analysis, timestamp, memory_id)

(***************************************************************************)
(* The graph driven through its interface                                  *)
(***************************************************************************)
MaxClock == 3
TICK == 15

Entities == {"Keys", "keys", "mug"}
Sightings ==
  {<<"indoor office", "bottom">>, <<"office", "bottom-right">>, <<"office", "top-left">>,
   <<"desk", "top-left">>, <<"desk", "bottom-right">>}
VisibleSets == {{}, {"Keys"}, {"mug"}}

MemId(t) == 1000 + t

NoStep == [op |-> "none"]

\* the index side of a process that has stored nothing
IndexIdle ==
  /\ index = NewIndex
  /\ files = EmptyDict
  /\ today = 0
  /\ next_id = 1
  /\ evicted = {}

\* no second process: the daemon alone, nothing persisted yet
ProcIdle ==
  /\ index_file = None
  /\ qindex = NewIndex
  /\ dpc = "running"
  /\ qpc = "idle"
  /\ captures = 0
  /\ queries = 0
  /\ recorded = EmptyDict

\* nothing saved yet, and no search process holding a graph
DiskIdle ==
  /\ graph_file = None
  /\ tmp_files = 0
  /\ qtemporal = NewTemporalGraph
  /\ disk_ops = 0
  /\ writer = [pc |-> "idle"]

\* no collaborator call under way
ApiIdle == retry = [pc |-> "idle"]

\* the graph side of a process that has seen nothing
GraphIdle ==
  /\ temporal = NewTemporalGraph
  /\ lastCall = EmptyDict
  /\ emitted = EmptyDict
  /\ clock = 0

InitGraph ==
  /\ GraphIdle
  /\ step = NoStep
  /\ IndexIdle
  /\ ProcIdle
  /\ DiskIdle
  /\ ApiIdle

Update ==
  /\ clock < MaxClock
  /\ \E name \in Entities, s \in Sightings :
       LET location == s[1]
           position == s[2]
           r == update(temporal, name, location, position, clock * TICK, MemId(clock))
           key == lower(name)
       IN  /\ temporal' = r.graph
           /\ lastCall' = Put(lastCall, key, <<location, position, clock * TICK, MemId(clock)>>)
           /\ emitted' = IF r.movement = None THEN emitted
                         ELSE Put(emitted, key, r.movement \o Get(emitted, key, << >>))
           /\ step' = [op |-> "update", name |-> name, location |-> location,
                       position |-> position, timestamp |-> clock * TICK,
                       memory_id |-> MemId(clock),
                       prev |-> get_last_location(temporal, name),
                       movement |-> r.movement, before |-> temporal]
  /\ clock' = clock + 1
  /\ UNCHANGED indexVars
  /\ UNCHANGED diskVars
  /\ UNCHANGED apiVars
  /\ UNCHANGED procVars

MarkAttached ==
  /\ clock < MaxClock
  /\ \E name \in Entities :
       /\ temporal' = mark_attached(temporal, name, clock * TICK, "desk")
       /\ step' = [op |-> "mark_attached", name |-> name]
  /\ clock' = clock + 1
  /\ UNCHANGED <<lastCall, emitted>>
  /\ UNCHANGED indexVars
  /\ UNCHANGED diskVars
  /\ UNCHANGED apiVars
  /\ UNCHANGED procVars

CheckRemovedAttached ==
  /\ clock < MaxClock
  /\ \E visible \in VisibleSets :
       /\ temporal' = check_removed_attached(temporal, visible, clock * TICK, ATTACH_TIMEOUT)
       /\ step' = [op |-> "check_removed_attached", visible |-> visible,
                   current_time |-> clock * TICK, before |-> temporal,
                   removed |-> removed_attached(temporal, visible, clock * TICK, ATTACH_TIMEOUT)]
  /\ clock' = clock + 1
  /\ UNCHANGED <<lastCall, emitted>>
  /\ UNCHANGED indexVars
  /\ UNCHANGED diskVars
  /\ UNCHANGED apiVars
  /\ UNCHANGED procVars

NextGraph == Update \/ MarkAttached \/ CheckRemovedAttached

SpecGraph == InitGraph /\ [][NextGraph]_vars

(***************************************************************************)
(* A graph that has already tracked one entity for a long time: the state  *)
(* update() reaches after n sightings of "keys" that alternate between two *)
(* places, each one a movement, the last of them CapSteps operations       *)
(* before the clock runs out.                                              *)
(***************************************************************************)
CapSteps == 2
CapSlack == 2

AlternatingSighting(i) == IF i % 2 = 0 THEN <<"desk", "top-left">> ELSE <<"counter", "bottom-right">>

\* the i-th of those sightings applied to the graph and its history
RunUpdate(before, i, t0) ==
  LET s == AlternatingSighting(i)
      t == (t0 + i) * TICK
      r == update(before.graph, "keys", s[1], s[2], t, MemId(t0 + i))
  IN  [graph |-> r.graph,
       lastCall |-> Put(before.lastCall, "keys", <<s[1], s[2], t, MemId(t0 + i)>>),
       emitted |-> IF r.movement = None THEN before.emitted
                   ELSE Put(before.emitted, "keys",
                            r.movement \o Get(before.emitted, "keys", << >>))]

\* sightings lo..hi applied in order (the test on the first half makes TLC
\* evaluate it before the second half is started)
RECURSIVE RunUpdates(_, _, _, _)
RunUpdates(before, lo, hi, t0) ==
  IF lo > hi THEN before
  ELSE IF lo = hi THEN RunUpdate(before, lo, t0)
  ELSE LET mid == (lo + hi) \div 2
           half == RunUpdates(before, lo, mid, t0)
       IN  IF half.graph.total_movements >= 0 THEN RunUpdates(half, mid + 1, hi, t0) ELSE before

InitCap ==
  /\ clock = MaxClock - CapSteps
  /\ step = NoStep
  /\ IndexIdle
  /\ ProcIdle
  /\ DiskIdle
  /\ ApiIdle
  /\ \E n \in (HISTORY_CAP - CapSlack)..(HISTORY_CAP + 1) :
       LET fresh == [graph |-> NewTemporalGraph, lastCall |-> EmptyDict, emitted |-> EmptyDict]
           ran == RunUpdates(fresh, 0, n, clock - n - 1)
       IN  /\ temporal = ran.graph
           /\ lastCall = ran.lastCall
           /\ emitted = ran.emitted

SpecCap == InitCap /\ [][NextGraph]_vars

(***************************************************************************)
(* One process storing captures, answering retrievals and cleaning up      *)
(***************************************************************************)
MAX_MEMORIES == 1
MaxStores == 3
MaxAccess == 1
MaxDay == 7
DAYS_PER_STEP == 7

Detection(name, context) == [name |-> name, context |-> context]

\* what the vision analysis may report for a capture
Captures ==
  {[location |-> "kitchen", objects |-> <<Detection("keys", "on table")>>,
    activities |-> <<"cooking">>, people |-> <<"John">>, persons |-> << >>],
   [location |-> "desk", objects |-> <<Detection("Keys", ""), Detection("mug", "in hand")>>,
    activities |-> <<"Reading">>, people |-> << >>,
    persons |-> <<[description |-> "man in blue shirt", name |-> ""]>>]}

MemoryOf(capture, id, timestamp) ==
  [id |-> id, timestamp |-> timestamp, location |-> capture.location,
   objects |-> capture.objects, activities |-> capture.activities,
   people |-> capture.people, persons |-> capture.persons]

InitIndex ==
  /\ GraphIdle
  /\ step = NoStep
  /\ IndexIdle
  /\ ProcIdle
  /\ DiskIdle
  /\ ApiIdle

\* analyze_and_store, steps 4 to 6: save_metadata(memory), then index.add(memory)
Store ==
  /\ next_id <= MaxStores
  /\ \E capture \in Captures :
       LET memory == MemoryOf(capture, next_id, today)
       IN  /\ files' = Put(files, memory.id, memory)
           /\ index' = add(index, memory)
           /\ step' = [op |-> "store", memory |-> memory]
  /\ next_id' = next_id + 1
  /\ UNCHANGED <<today, evicted>>
  /\ UNCHANGED graphVars
  /\ UNCHANGED diskVars
  /\ UNCHANGED apiVars
  /\ UNCHANGED procVars

QueryEntities == {"keys", "mug", "cup"}

\* an object query answered by the dispatcher, with or without placed
Query ==
  /\ \E search_entity \in QueryEntities, placed \in BOOLEAN :
       LET r == find_object(index, temporal, files, search_entity, placed, today)
       IN  /\ \A mem_id \in DOMAIN r.index.access_log :
                r.index.access_log[mem_id].access_count <= MaxAccess
           /\ index' = r.index
           /\ step' = [op |-> "find_object", search_entity |-> search_entity,
                       placed |-> placed, found |-> find_by_object(index, search_entity),
                       memory |-> r.memory, outcome |-> r.outcome]
  /\ UNCHANGED <<files, today, next_id, evicted>>
  /\ UNCHANGED graphVars
  /\ UNCHANGED diskVars
  /\ UNCHANGED apiVars
  /\ UNCHANGED procVars

\* cleanup_old_memories(index)
Cleanup ==
  /\ LET r == cleanup_old_memories(files, index, TRUE, today, MAX_MEMORIES)
         candidates == cleanup_candidates(files, index, TRUE, today, MAX_MEMORIES)
     IN  /\ files' = r.files
         /\ index' = r.index
         /\ evicted' = evicted \cup Range(candidates)
         /\ step' = [op |-> "cleanup", deleted |-> r.deleted, candidates |-> candidates,
                     before |-> DOMAIN files, cached |-> DOMAIN index.memories,
                     score |-> [i \in DOMAIN files |-> decay_score(index, i, today)],
                     scorer |-> truthy(index, TRUE)]
  /\ UNCHANGED <<today, next_id>>
  /\ UNCHANGED graphVars
  /\ UNCHANGED diskVars
  /\ UNCHANGED apiVars
  /\ UNCHANGED procVars

\* time passes
NextDay ==
  /\ today + DAYS_PER_STEP <= MaxDay
  /\ today' = today + DAYS_PER_STEP
  /\ step' = [op |-> "next_day"]
  /\ UNCHANGED <<index, files, next_id, evicted>>
  /\ UNCHANGED graphVars
  /\ UNCHANGED diskVars
  /\ UNCHANGED apiVars
  /\ UNCHANGED procVars

NextIndex == Store \/ Query \/ Cleanup \/ NextDay

SpecIndex == InitIndex /\ [][NextIndex]_vars

(***************************************************************************)
(* Cleanup called without an index, on records some of which were recalled *)
(***************************************************************************)
\* cleanup_old_memories()
CleanupWithoutIndex ==
  /\ LET r == cleanup_old_memories(files, index, FALSE, today, MAX_MEMORIES)
         candidates == cleanup_candidates(files, index, FALSE, today, MAX_MEMORIES)
     IN  /\ files' = r.files
         /\ index' = r.index
         /\ evicted' = evicted \cup Range(candidates)
         /\ step' = [op |-> "cleanup", deleted |-> r.deleted, candidates |-> candidates,
                     before |-> DOMAIN files,
                     score |-> [i \in DOMAIN files |-> decay_score(index, i, today)],
                     scorer |-> truthy(index, FALSE)]
  /\ UNCHANGED <<today, next_id>>
  /\ UNCHANGED graphVars
  /\ UNCHANGED diskVars
  /\ UNCHANGED apiVars
  /\ UNCHANGED procVars

NextFifo == Store \/ Query \/ CleanupWithoutIndex

SpecFifo == InitIndex /\ [][NextFifo]_vars

(***************************************************************************)
(* Lookups against an index built from single-object captures              *)
(***************************************************************************)
MaxIngest == 2

Vocabulary == {"glasses", "specs", "card", "cup", "cups", "water bottle", "car keys"}
LookupTerms == {"glasses", "eyeglasses", "car", "mug", "bottle", "key"}

InitLookup ==
  /\ GraphIdle
  /\ step = NoStep
  /\ IndexIdle
  /\ ProcIdle
  /\ DiskIdle
  /\ ApiIdle

\* a capture showing one object
Ingest ==
  /\ next_id <= MaxIngest
  /\ \E name \in Vocabulary :
       LET memory == MemoryOf([location |-> "desk", objects |-> <<Detection(name, "")>>,
                               activities |-> << >>, people |-> << >>, persons |-> << >>],
                              next_id, today)
       IN  /\ files' = Put(files, memory.id, memory)
           /\ index' = add(index, memory)
           /\ step' = [op |-> "store", memory |-> memory]
  /\ next_id' = next_id + 1
  /\ UNCHANGED <<today, evicted>>
  /\ UNCHANGED graphVars
  /\ UNCHANGED diskVars
  /\ UNCHANGED apiVars
  /\ UNCHANGED procVars

\* index.find_by_object(name)
FindByObject ==
  /\ \E name \in LookupTerms :
       step' = [op |-> "find_by_object", name |-> name,
                result |-> find_by_object(index, name)]
  /\ UNCHANGED indexVars
  /\ UNCHANGED graphVars
  /\ UNCHANGED diskVars
  /\ UNCHANGED apiVars
  /\ UNCHANGED procVars

NextLookup == Ingest \/ FindByObject

SpecLookup == InitLookup /\ [][NextLookup]_vars

(***************************************************************************)
(* Two processes on one MEMORY_DIR: the capture daemon (cmd_daemon) with   *)
(* its MemoryIndex in index, and the search loop (cmd_search) with its own *)
(* in qindex.  They share the memory files and memory_index.json.          *)
(***************************************************************************)
CHECKPOINT_EVERY == 10
MaxCaptures == 10
MaxQueries == 2

SessionCapture ==
  [location |-> "desk", objects |-> <<Detection("keys", "on desk")>>,
   activities |-> <<"Reading">>, people |-> <<"John">>,
   persons |-> <<[description |-> "man in blue shirt", name |-> "John"]>>]

InitProc ==
  /\ GraphIdle
  /\ step = NoStep
  /\ IndexIdle
  /\ ProcIdle
  /\ DiskIdle
  /\ ApiIdle

\* the daemon loop, one capture: analyze_and_store saves the memory file and
\* adds the memory to the index; every tenth capture of the session goes on
\* to the checkpoint
DaemonCapture ==
  /\ dpc = "running"
  /\ next_id <= MaxCaptures
  /\ LET memory == MemoryOf(SessionCapture, next_id, today)
     IN  /\ files' = Put(files, memory.id, memory)
         /\ index' = add(index, memory)
         /\ step' = [op |-> "store", memory |-> memory]
  /\ next_id' = next_id + 1
  /\ captures' = captures + 1
  /\ dpc' = IF (captures + 1) % CHECKPOINT_EVERY = 0 THEN "checkpoint" ELSE "running"
  /\ UNCHANGED <<today, evicted, index_file, qindex, qpc, queries, recorded>>
  /\ UNCHANGED graphVars
  /\ UNCHANGED diskVars
  /\ UNCHANGED apiVars

\* the checkpoint: index.save(), then cleanup_old_memories(index)
DaemonCheckpoint ==
  /\ dpc = "checkpoint"
  /\ index_file' = Some(save(index))
  /\ LET r == cleanup_old_memories(files, index, TRUE, today, MAX_MEMORIES)
         candidates == cleanup_candidates(files, index, TRUE, today, MAX_MEMORIES)
     IN  /\ files' = r.files
         /\ index' = r.index
         /\ evicted' = evicted \cup Range(candidates)
         /\ step' = [op |-> "checkpoint", deleted |-> r.deleted]
  /\ dpc' = "running"
  /\ UNCHANGED <<today, next_id, qindex, qpc, captures, queries, recorded>>
  /\ UNCHANGED graphVars
  /\ UNCHANGED diskVars
  /\ UNCHANGED apiVars

\* Ctrl+C: the finally clause saves the index
DaemonShutdown ==
  /\ dpc \in {"running", "checkpoint"}
  /\ index_file' = Some(save(index))
  /\ dpc' = "stopped"
  /\ step' = [op |-> "shutdown"]
  /\ UNCHANGED <<index, files, today, next_id, evicted, qindex, qpc, captures, queries, recorded>>
  /\ UNCHANGED graphVars
  /\ UNCHANGED diskVars
  /\ UNCHANGED apiVars

\* the daemon started again: MemoryIndex() loads what is on disk
DaemonStart ==
  /\ dpc = "stopped"
  /\ index' = load(NewIndex, index_file, files)
  /\ captures' = 0
  /\ dpc' = "running"
  /\ step' = [op |-> "start"]
  /\ UNCHANGED <<files, today, next_id, evicted, index_file, qindex, qpc, queries, recorded>>
  /\ UNCHANGED graphVars
  /\ UNCHANGED diskVars
  /\ UNCHANGED apiVars

\* the search loop, a query arrives: index.reload()
SearchReload ==
  /\ qpc = "idle"
  /\ queries < MaxQueries
  /\ qindex' = reload(qindex, index_file, files)
  /\ qpc' = "loaded"
  /\ step' = [op |-> "reload"]
  /\ UNCHANGED <<index, files, today, next_id, evicted, index_file, dpc, captures, queries, recorded>>
  /\ UNCHANGED graphVars
  /\ UNCHANGED diskVars
  /\ UNCHANGED apiVars

\* the query answered by find_object, which records the access
SearchAnswer ==
  /\ qpc = "loaded"
  /\ LET found == find_by_object(qindex, "keys")
         r == find_object(qindex, temporal, files, "keys", FALSE, today)
     IN  /\ qindex' = r.index
         /\ recorded' = IF found = << >> THEN recorded
                        ELSE Put(recorded, found[1],
                                 Max(Get(recorded, found[1], 0),
                                     r.index.access_log[found[1]].access_count))
         /\ step' = [op |-> "find_object", search_entity |-> "keys", placed |-> FALSE,
                     found |-> found, memory |-> r.memory, outcome |-> r.outcome]
  /\ qpc' = "answered"
  /\ UNCHANGED <<index, files, today, next_id, evicted, index_file, dpc, captures, queries>>
  /\ UNCHANGED graphVars
  /\ UNCHANGED diskVars
  /\ UNCHANGED apiVars

\* index.save() after the query
SearchSave ==
  /\ qpc = "answered"
  /\ index_file' = Some(save(qindex))
  /\ qpc' = "idle"
  /\ queries' = queries + 1
  /\ step' = [op |-> "save"]
  /\ UNCHANGED <<index, files, today, next_id, evicted, qindex, dpc, captures, recorded>>
  /\ UNCHANGED graphVars
  /\ UNCHANGED diskVars
  /\ UNCHANGED apiVars

NextProc ==
  \/ DaemonCapture \/ DaemonCheckpoint \/ DaemonShutdown \/ DaemonStart
  \/ SearchReload \/ SearchAnswer \/ SearchSave

SpecProc == InitProc /\ [][NextProc]_vars

(***************************************************************************)
(* The graph saved by the daemon and loaded by the search process, with a  *)
(* file system in which a write can fail and a file can be damaged.  The   *)
(* daemon starts from a graph that has seen "keys" up to PersistSeed + 1   *)
(* times.                                                                  *)
(***************************************************************************)
PersistSteps == 1
PersistSeed == 1
MaxDiskOps == 3

InitPersist ==
  /\ clock = MaxClock - PersistSteps
  /\ step = NoStep
  /\ IndexIdle
  /\ ProcIdle
  /\ DiskIdle
  /\ ApiIdle
  /\ \E n \in -1..PersistSeed :
       LET fresh == [graph |-> NewTemporalGraph, lastCall |-> EmptyDict, emitted |-> EmptyDict]
           ran == RunUpdates(fresh, 0, n, clock - n - 1)
       IN  /\ temporal = ran.graph
           /\ lastCall = ran.lastCall
           /\ emitted = ran.emitted

\* temporal.save(DATA_DIR / "temporal_graph.json") in the daemon
SaveGraph ==
  /\ disk_ops < MaxDiskOps
  /\ \E fail_at \in {"none"} \cup Range(WRITE_STEPS), unlink_fails \in BOOLEAN :
       LET w == atomic_write_text(graph_file, dumps(graph_data(temporal)), fail_at, unlink_fails)
       IN  /\ fail_at = "none" => ~unlink_fails
           /\ graph_file' = w.dest
           /\ tmp_files' = tmp_files + w.left
           /\ step' = [op |-> "save", fail_at |-> fail_at, unlink_fails |-> unlink_fails,
                       raised |-> w.raised, before |-> graph_file, tmp_before |-> tmp_files]
  /\ disk_ops' = disk_ops + 1
  /\ UNCHANGED <<qtemporal, writer>>
  /\ UNCHANGED apiVars
  /\ UNCHANGED graphVars
  /\ UNCHANGED indexVars
  /\ UNCHANGED procVars

\* the ways temporal_graph.json can be damaged behind the program's back
Damaged(file) ==
  {None, Some([parses |-> FALSE])}
    \cup (IF file # None /\ file[1].parses
          THEN {Some([file[1] EXCEPT !.data.last_seen[k] = [kind |-> "null"]]) :
                  k \in DOMAIN file[1].data.last_seen}
               \cup {Some([file[1] EXCEPT !.data.movements[k][1] =
                                 [f \in MOVEMENT_FIELDS \ {"to_memory_id"} |-> @[f]]]) :
                       k \in DOMAIN file[1].data.movements}
          ELSE {})

\* the file removed, overwritten with text that does not parse, or left with
\* an entry of the wrong shape
DamageFile ==
  /\ disk_ops < MaxDiskOps
  /\ \E file \in Damaged(graph_file) :
       /\ file # graph_file
       /\ graph_file' = file
  /\ step' = [op |-> "damage"]
  /\ disk_ops' = disk_ops + 1
  /\ UNCHANGED <<tmp_files, qtemporal, writer>>
  /\ UNCHANGED apiVars
  /\ UNCHANGED graphVars
  /\ UNCHANGED indexVars
  /\ UNCHANGED procVars

\* temporal.load(DATA_DIR / "temporal_graph.json") in the search loop
LoadGraph ==
  /\ disk_ops < MaxDiskOps
  /\ qtemporal' = TemporalGraph_load(qtemporal, graph_file)
  /\ step' = [op |-> "load", failed |-> load_fails(graph_file), before |-> qtemporal]
  /\ disk_ops' = disk_ops + 1
  /\ UNCHANGED <<graph_file, tmp_files, writer>>
  /\ UNCHANGED apiVars
  /\ UNCHANGED graphVars
  /\ UNCHANGED indexVars
  /\ UNCHANGED procVars

NextPersist ==
  \/ Update \/ MarkAttached \/ CheckRemovedAttached
  \/ SaveGraph \/ DamageFile \/ LoadGraph

SpecPersist == InitPersist /\ [][NextPersist]_vars

(***************************************************************************)
(* One index filled by add(), saved, and rebuilt by a fresh MemoryIndex    *)
(* (in qindex).  The analysis may report names with surrounding blanks or  *)
(* with a comma in them.                                                   *)
(***************************************************************************)
ReportedCaptures ==
  {[location |-> "desk", objects |-> <<Detection("keys", "on desk")>>,
    activities |-> <<"reading">>, people |-> <<"John">>, persons |-> << >>],
   [location |-> "kitchen", objects |-> <<Detection("mug", "in hand"), Detection("Car Keys", "")>>,
    activities |-> <<"Cooking">>, people |-> <<"Sarah">>,
    persons |-> <<[description |-> "woman in red coat", name |-> "Sarah"]>>],
   [location |-> "desk", objects |-> <<Detection("Keys ", "on desk")>>,
    activities |-> <<"Reading, writing">>, people |-> <<" John">>,
    persons |-> <<[description |-> "man in blue shirt", name |-> ""]>>]}

InitAdd ==
  /\ GraphIdle
  /\ step = NoStep
  /\ IndexIdle
  /\ ProcIdle
  /\ DiskIdle
  /\ ApiIdle

\* analyze_and_store, steps 4 to 6, for a reported capture
AddRecord ==
  /\ next_id <= MaxIngest
  /\ \E capture \in ReportedCaptures :
       LET memory == MemoryOf(capture, next_id, today)
       IN  /\ files' = Put(files, memory.id, memory)
           /\ index' = add(index, memory)
           /\ step' = [op |-> "add", memory |-> memory]
  /\ next_id' = next_id + 1
  /\ UNCHANGED <<today, evicted>>
  /\ UNCHANGED graphVars
  /\ UNCHANGED procVars
  /\ UNCHANGED diskVars
  /\ UNCHANGED apiVars

\* index.save()
SaveIndex ==
  /\ index_file # Some(save(index))
  /\ index_file' = Some(save(index))
  /\ step' = [op |-> "save"]
  /\ UNCHANGED <<qindex, dpc, qpc, captures, queries, recorded>>
  /\ UNCHANGED indexVars
  /\ UNCHANGED graphVars
  /\ UNCHANGED diskVars
  /\ UNCHANGED apiVars

\* MemoryIndex() in another process: _load from the index file, or from the
\* scan of the memory files when there is no index file
Rebuild ==
  /\ qindex' = load(NewIndex, index_file, files)
  /\ step' = [op |-> "rebuild", from_file |-> index_file # None]
  /\ UNCHANGED <<index_file, dpc, qpc, captures, queries, recorded>>
  /\ UNCHANGED indexVars
  /\ UNCHANGED graphVars
  /\ UNCHANGED diskVars
  /\ UNCHANGED apiVars

NextAdd == AddRecord \/ SaveIndex \/ Rebuild

SpecAdd == InitAdd /\ [][NextAdd]_vars

(***************************************************************************)
(* Cleanup by a daemon whose index may lag behind the memory files: the    *)
(* daemon is killed after captures it has not saved yet and, started       *)
(* again, loads the index file of its last save.                           *)
(***************************************************************************)
\* the daemon killed and started again: MemoryIndex() loads what is on disk
KillAndRestart ==
  /\ index_file # None
  /\ index' = load(NewIndex, index_file, files)
  /\ step' = [op |-> "restart"]
  /\ UNCHANGED <<files, today, next_id, evicted>>
  /\ UNCHANGED procVars
  /\ UNCHANGED graphVars
  /\ UNCHANGED diskVars
  /\ UNCHANGED apiVars

NextTolerant == AddRecord \/ SaveIndex \/ KillAndRestart \/ Cleanup

SpecTolerant == InitAdd /\ [][NextTolerant]_vars

(***************************************************************************)
(* Captures that fall into the second of the capture before them: the id   *)
(* is mem_ followed by the capture time to the second, so the record is    *)
(* stored and added under the id of the earlier one.                       *)
(***************************************************************************)
\* analyze_and_store, steps 4 to 6, for a capture in the second of the last one
AddSameSecond ==
  /\ next_id > 1
  /\ \E capture \in ReportedCaptures :
       LET memory == MemoryOf(capture, next_id - 1, today)
       IN  /\ files' = Put(files, memory.id, memory)
           /\ index' = add(index, memory)
           /\ step' = [op |-> "add", memory |-> memory]
  /\ UNCHANGED <<today, next_id, evicted>>
  /\ UNCHANGED graphVars
  /\ UNCHANGED procVars
  /\ UNCHANGED diskVars
  /\ UNCHANGED apiVars

NextSameSecond == AddRecord \/ AddSameSecond \/ Cleanup

SpecSameSecond == InitAdd /\ [][NextSameSecond]_vars

(***************************************************************************)
(* The dispatcher asked every type of question over an index filled by     *)
(* add(), with record files that may have gone missing.  A transcript      *)
(* whose extraction yields a blank name leaves "" in memory.people.        *)
(***************************************************************************)
HeardCaptures ==
  {[location |-> "desk",
    objects |-> <<Detection("keys", "on desk"), Detection("mug", "in hand")>>,
    activities |-> <<"reading">>, people |-> <<"John">>,
    persons |-> <<[description |-> "man in blue shirt", name |-> "John"]>>],
   [location |-> "kitchen", objects |-> <<Detection("mug", "")>>,
    activities |-> << >>, people |-> <<"">>, persons |-> << >>]}

QueryTypes == {"object", "scene", "time", "near", "person", "activity", "vqa"}
Asked == {"", "keys", "mug", "cup", "Sarah", "today"}

InitDispatch ==
  /\ GraphIdle
  /\ step = NoStep
  /\ IndexIdle
  /\ ProcIdle
  /\ DiskIdle
  /\ ApiIdle

\* analyze_and_store, steps 4 to 6, for a capture with audio
HearAndStore ==
  /\ next_id <= MaxIngest
  /\ \E capture \in HeardCaptures :
       LET memory == MemoryOf(capture, next_id, today)
       IN  /\ files' = Put(files, memory.id, memory)
           /\ index' = add(index, memory)
           /\ step' = [op |-> "add", memory |-> memory]
  /\ next_id' = next_id + 1
  /\ UNCHANGED <<today, evicted>>
  /\ UNCHANGED graphVars
  /\ UNCHANGED procVars
  /\ UNCHANGED diskVars
  /\ UNCHANGED apiVars

\* a record file is removed, or can no longer be read: load_memory answers None
LoseFile ==
  /\ \E mem_id \in DOMAIN files :
       /\ files' = Del(files, mem_id)
       /\ step' = [op |-> "lose", mem_id |-> mem_id]
  /\ UNCHANGED <<index, today, next_id, evicted>>
  /\ UNCHANGED graphVars
  /\ UNCHANGED procVars
  /\ UNCHANGED diskVars
  /\ UNCHANGED apiVars

\* what a call of find_object leaves behind
Dispatched(r, query_type, search_entity, gemini, placed) ==
  /\ \A mem_id \in DOMAIN r.index.access_log :
       r.index.access_log[mem_id].access_count <= MaxAccess
  /\ index' = r.index
  /\ step' = [op |-> "dispatch", query_type |-> query_type,
              search_entity |-> search_entity, gemini |-> gemini, placed |-> placed,
              raised |-> r.raised, kind |-> r.kind,
              first |-> r.first, second |-> r.second,
              before |-> index.access_log]

\* find_object(index, temporal, query, query_type, entity, gemini, placed)
Dispatch ==
  /\ \E query_type \in QueryTypes, search_entity \in Asked, gemini \in BOOLEAN,
        placed \in BOOLEAN :
       Dispatched(find_object_typed(index, temporal, files, query_type, search_entity,
                                    gemini, placed, today),
                  query_type, search_entity, gemini, placed)
  /\ UNCHANGED <<files, today, next_id, evicted>>
  /\ UNCHANGED graphVars
  /\ UNCHANGED procVars
  /\ UNCHANGED diskVars
  /\ UNCHANGED apiVars

NextDispatch == HearAndStore \/ LoseFile \/ Dispatch

SpecDispatch == InitDispatch /\ [][NextDispatch]_vars

(***************************************************************************)
(* Person lookups against the records of the captures above                *)
(***************************************************************************)
PeopleAsked == {"", "John", "john smith", "jo", "Sarah", "man", " JOHN ", "blue shirt"}

\* index.find_by_person(name)
FindByPerson ==
  /\ \E name \in PeopleAsked :
       step' = [op |-> "find_by_person", name |-> name,
                raised |-> find_by_person_raises(index, name),
                result |-> IF find_by_person_raises(index, name) THEN << >>
                           ELSE find_by_person(index, name)]
  /\ UNCHANGED indexVars
  /\ UNCHANGED graphVars
  /\ UNCHANGED procVars
  /\ UNCHANGED diskVars
  /\ UNCHANGED apiVars

NextPerson == HearAndStore \/ LoseFile \/ FindByPerson

SpecPerson == InitDispatch /\ [][NextPerson]_vars

(***************************************************************************)
(* Scene queries against the records of the captures above                 *)
(***************************************************************************)
MaxSceneAccesses == 1

SceneAsked == {"", "desk", "Kitchen", "mug", "keys"}

\* the accesses recorded so far
RECURSIVE access_total(_, _)
access_total(access_log, mem_ids) ==
  IF mem_ids = {} THEN 0
  ELSE LET mem_id == CHOOSE m \in mem_ids : TRUE
       IN  access_log[mem_id].access_count + access_total(access_log, mem_ids \ {mem_id})

\* find_object(index, temporal, query, "scene", entity, None, placed)
AskScene ==
  /\ access_total(index.access_log, DOMAIN index.access_log) < MaxSceneAccesses
  /\ \E search_entity \in SceneAsked, placed \in BOOLEAN :
       Dispatched(find_object_typed(index, temporal, files, "scene", search_entity,
                                    FALSE, placed, today),
                  "scene", search_entity, FALSE, placed)
  /\ UNCHANGED <<files, today, next_id, evicted>>
  /\ UNCHANGED graphVars
  /\ UNCHANGED procVars
  /\ UNCHANGED diskVars
  /\ UNCHANGED apiVars

NextScene == HearAndStore \/ LoseFile \/ AskScene

SpecScene == InitDispatch /\ [][NextScene]_vars

(***************************************************************************)
(* The daemon ingesting captures: worn objects, useful objects and         *)
(* detections the analysis is not sure of                                  *)
(***************************************************************************)
Seen(label, confidence, attached, position) ==
  [label |-> label, confidence |-> confidence, attached |-> attached, context |-> "",
   position |-> position]

SeenObjects ==
  {<<Seen("Glasses", 90, TRUE, "top-left")>>,
   <<Seen("keys", 90, FALSE, "top-left")>>,
   <<Seen("keys", 90, FALSE, "bottom-right"), Seen("Glasses", 95, TRUE, "top-left")>>,
   <<Seen("keys", 90, FALSE, "top-left"), Seen("glasses", 30, FALSE, "top-left")>>,
   <<Seen("Keys", 30, FALSE, "bottom-right")>>,
   <<Seen("glasses", 90, FALSE, "top-left")>>}

Analyses == {[location |-> l, objects |-> o] : l \in {"desk", "office"}, o \in SeenObjects}

InitIngest ==
  /\ GraphIdle
  /\ step = NoStep
  /\ IndexIdle
  /\ ProcIdle
  /\ DiskIdle
  /\ ApiIdle

\* what a call of analyze_and_store leaves behind
Ingested(r, analysis) ==
  /\ temporal' = r.graph
  /\ index' = r.index
  /\ files' = r.files
  /\ step' = [op |-> "ingest", analysis |-> analysis, memory |-> r.memory,
              was_saved |-> r.was_saved, useful |-> r.useful, movements |-> r.movements,
              before |-> [graph |-> temporal, index |-> index, files |-> files]]

\* cmd_daemon: memory, was_saved = analyze_and_store(...)
AnalyzeAndStore ==
  /\ clock < MaxClock
  /\ \E analysis \in Analyses :
       Ingested(analyze_and_store(temporal, index, files, analysis, clock * TICK, MemId(clock)),
                analysis)
  /\ clock' = clock + 1
  /\ UNCHANGED <<lastCall, emitted>>
  /\ UNCHANGED <<today, next_id, evicted>>
  /\ UNCHANGED procVars
  /\ UNCHANGED diskVars
  /\ UNCHANGED apiVars

NextIngest == AnalyzeAndStore

SpecIngest == InitIngest /\ [][NextIngest]_vars

(***************************************************************************)
(* One record of some age, recalled again and again and scored             *)
(***************************************************************************)
MaxRecalls == 11

ScoreNow == CHOOSE latest \in ScoreAges : \A age \in ScoreAges : age <= latest

ScoredCapture == CHOOSE capture \in Captures : capture.location = "kitchen"

InitScore ==
  /\ GraphIdle
  /\ step = NoStep
  /\ ProcIdle
  /\ DiskIdle
  /\ ApiIdle
  /\ today = ScoreNow
  /\ next_id = 2
  /\ evicted = {}
  /\ \E timestamp \in {ScoreNow - age : age \in ScoreAges} \cup {-1} :
       /\ index = add(NewIndex, MemoryOf(ScoredCapture, 1, timestamp))
       /\ files = Put(EmptyDict, 1, MemoryOf(ScoredCapture, 1, timestamp))

\* a search that returns the record: index.record_access([mem_id])
Recall ==
  /\ Get(index.access_log, 1, [access_count |-> 0]).access_count < MaxRecalls
  /\ index' = record_access(index, <<1>>, today)
  /\ step' = [op |-> "recall"]
  /\ UNCHANGED <<files, today, next_id, evicted>>
  /\ UNCHANGED graphVars
  /\ UNCHANGED procVars
  /\ UNCHANGED diskVars
  /\ UNCHANGED apiVars

\* index.decay_score(mem_id)
Score ==
  /\ step' = [op |-> "score",
              undated |-> index.memories[1].timestamp < 0,
              age |-> age_days(index, 1, today),
              count |-> Get(index.access_log, 1, [access_count |-> 0]).access_count,
              score |-> decay_score_double(index, 1, today)]
  /\ UNCHANGED indexVars
  /\ UNCHANGED graphVars
  /\ UNCHANGED procVars
  /\ UNCHANGED diskVars
  /\ UNCHANGED apiVars

NextScore == Recall \/ Score

SpecScore == InitScore /\ [][NextScore]_vars

(***************************************************************************)
(* temporal_graph.json written step by step by the daemon, which may die   *)
(* between any two steps, while the search process reads the file          *)
(***************************************************************************)
\* the daemon between two saves: a capture updates the graph
CaptureBetweenWrites ==
  /\ writer.pc = "idle"
  /\ Update

\* tempfile.mkstemp(dir=path.parent, ...)
BeginWrite ==
  /\ writer.pc = "idle"
  /\ disk_ops < MaxDiskOps
  /\ writer' = begin_write(graph_file, dumps(graph_data(temporal)))
  /\ disk_ops' = disk_ops + 1
  /\ step' = [op |-> "mkstemp", before |-> graph_file,
              data |-> dumps(graph_data(temporal))]
  /\ UNCHANGED <<graph_file, tmp_files, qtemporal>>
  /\ UNCHANGED apiVars
  /\ UNCHANGED graphVars
  /\ UNCHANGED indexVars
  /\ UNCHANGED procVars

\* the next of write, flush, fsync and replace
WriteStep ==
  /\ writer.pc # "idle"
  /\ writer' = write_step(writer, graph_file).writer
  /\ graph_file' = write_step(writer, graph_file).dest
  /\ step' = [op |-> writer.pc, before |-> writer.before, data |-> writer.data]
  /\ UNCHANGED <<tmp_files, qtemporal, disk_ops>>
  /\ UNCHANGED apiVars
  /\ UNCHANGED graphVars
  /\ UNCHANGED indexVars
  /\ UNCHANGED procVars

\* the daemon is killed, or the power goes, before the call has returned
Crash ==
  /\ writer.pc # "idle"
  /\ writer' = [pc |-> "idle"]
  /\ tmp_files' = tmp_files + 1
  /\ step' = [op |-> "crash", at |-> writer.pc, before |-> writer.before,
              data |-> writer.data]
  /\ UNCHANGED <<graph_file, qtemporal, disk_ops>>
  /\ UNCHANGED apiVars
  /\ UNCHANGED graphVars
  /\ UNCHANGED indexVars
  /\ UNCHANGED procVars

\* temporal.load(...) in the search process, at any moment
ReadGraph ==
  /\ qtemporal' = TemporalGraph_load(qtemporal, graph_file)
  /\ step' = [op |-> "read", missing |-> graph_file = None,
              failed |-> load_fails(graph_file), during |-> writer.pc]
  /\ UNCHANGED <<graph_file, tmp_files, disk_ops, writer>>
  /\ UNCHANGED apiVars
  /\ UNCHANGED graphVars
  /\ UNCHANGED indexVars
  /\ UNCHANGED procVars

NextAtomic == CaptureBetweenWrites \/ BeginWrite \/ WriteStep \/ Crash \/ ReadGraph

SpecAtomic == InitPersist /\ [][NextAtomic]_vars

(***************************************************************************)
(* The position tie-break applied to the cells BoundingBox.position()      *)
(* names, in the letter case of the cell or another                        *)
(***************************************************************************)
GridPositions ==
  {"top-left", "top", "top-right", "left", "center", "right",
   "bottom-left", "bottom", "bottom-right", "center-left", "Top-Left", "BOTTOM"}

\* positions_different(prev_pos, position) inside update
ComparePositions ==
  /\ \E pos1 \in GridPositions, pos2 \in GridPositions :
       step' = [op |-> "positions_different", pos1 |-> pos1, pos2 |-> pos2,
                different |-> positions_different(pos1, pos2)]
  /\ UNCHANGED graphVars
  /\ UNCHANGED indexVars
  /\ UNCHANGED procVars
  /\ UNCHANGED diskVars
  /\ UNCHANGED apiVars

NextPosition == ComparePositions

SpecPosition == InitGraph /\ [][NextPosition]_vars

(***************************************************************************)
(* Location normalization applied to the previous and the current label    *)
(* of a sighting, as update does before it compares them                   *)
(***************************************************************************)
LocationLabels ==
  {"Kitchen", "kitchen", "the kitchen", "indoor office", "living room",
   "near the window", "lathe room", "office", "Inside The Garage",
   " desk area ", "room", "outdoor"}

\* norm_prev, norm_curr and location_changed inside update
NormalizeLocations ==
  /\ \E prev_loc \in LocationLabels, location \in LocationLabels :
       step' = [op |-> "normalize_location", prev_loc |-> prev_loc, location |-> location,
                norm_prev |-> normalize_location(prev_loc),
                norm_curr |-> normalize_location(location),
                location_changed |-> normalize_location(prev_loc) # normalize_location(location)]
  /\ UNCHANGED graphVars
  /\ UNCHANGED indexVars
  /\ UNCHANGED procVars
  /\ UNCHANGED diskVars
  /\ UNCHANGED apiVars

NextLocation == NormalizeLocations

SpecLocation == InitGraph /\ [][NextLocation]_vars

(***************************************************************************)
(* Time expressions parsed at several moments of two days                   *)
(***************************************************************************)
TimeExpressions ==
  {"last 2 hours", "past 30 minutes", "last 90 minutes", "Past 1 hour", "last 3 hours ago",
   "last 20000000 hours", "this morning", "this afternoon", "this evening", "tonight",
   "today", " Yesterday ", "last hour", "past hour", "last night", "last week", "", "last  0 minutes"}

Moments ==
  {[day |-> d, second |-> s] : d \in {739926, 739927}, s \in {0, 1800, 21600, 43200, 86399}}

\* start, end = parse_time_entity(search_entity)
ParseTime ==
  /\ \E entity \in TimeExpressions, now \in Moments :
       step' = [op |-> "parse_time_entity", entity |-> entity, now |-> now,
                window |-> parse_time_window(entity, now)]
  /\ UNCHANGED graphVars
  /\ UNCHANGED indexVars
  /\ UNCHANGED procVars
  /\ UNCHANGED diskVars
  /\ UNCHANGED apiVars

NextTime == ParseTime

SpecTime == InitGraph /\ [][NextTime]_vars

(***************************************************************************)
(* Collaborator calls made through retry_api_call                          *)
(***************************************************************************)
MaxBudget == 3

ApiErrors == {"429 Too Many Requests", "Resource exhausted", "400 invalid argument", "timed out"}
Jitters == {50, 100, 149}

InitRetry ==
  /\ GraphIdle
  /\ step = NoStep
  /\ IndexIdle
  /\ ProcIdle
  /\ DiskIdle
  /\ ApiIdle

\* retry_api_call(func) is entered
BeginRetry ==
  /\ retry.pc = "idle"
  /\ \E max_retries \in 0..MaxBudget : retry' = begin_retry(max_retries)
  /\ step' = [op |-> "retry_api_call"]
  /\ UNCHANGED graphVars
  /\ UNCHANGED indexVars
  /\ UNCHANGED procVars
  /\ UNCHANGED diskVars

\* the wrapped call returns a result
CallReturns ==
  /\ retry.pc = "call"
  /\ retry' = call_returned(retry)
  /\ step' = [op |-> "return"]
  /\ UNCHANGED graphVars
  /\ UNCHANGED indexVars
  /\ UNCHANGED procVars
  /\ UNCHANGED diskVars

\* the wrapped call raises
CallRaises ==
  /\ retry.pc = "call"
  /\ \E error \in ApiErrors, jitter \in Jitters : retry' = call_raised(retry, error, jitter)
  /\ step' = [op |-> "except"]
  /\ UNCHANGED graphVars
  /\ UNCHANGED indexVars
  /\ UNCHANGED procVars
  /\ UNCHANGED diskVars

\* the sleep between two attempts ends
Wake ==
  /\ retry.pc = "sleep"
  /\ retry' = slept(retry)
  /\ step' = [op |-> "sleep"]
  /\ UNCHANGED graphVars
  /\ UNCHANGED indexVars
  /\ UNCHANGED procVars
  /\ UNCHANGED diskVars

\* the caller goes on with the result or the exception
LeaveRetry ==
  /\ retry.pc \in {"returned", "raised"}
  /\ retry' = [pc |-> "idle"]
  /\ step' = [op |-> "leave"]
  /\ UNCHANGED graphVars
  /\ UNCHANGED indexVars
  /\ UNCHANGED procVars
  /\ UNCHANGED diskVars

NextRetry == BeginRetry \/ CallReturns \/ CallRaises \/ Wake \/ LeaveRetry

\* the wrapped call comes back and a sleep ends
SpecRetry ==
  InitRetry /\ [][NextRetry]_vars /\ WF_vars(CallReturns \/ CallRaises) /\ WF_vars(Wake)

----------------------------------------------------------------------------
C2_EmitIffChanged ==
  (step.op = "update" /\ step.prev # None) =>
    ((step.movement # None) <=>
       (\/ normalize_location(step.prev[1][1]) # normalize_location(step.location)
        \/ positions_different(step.prev[1][2], step.position)))

\* suppression with a differently worded location and an unequal position:
\* "indoor office" against "office", "bottom" against "bottom-right"
C2_Witness ==
  /\ step.op = "update" /\ step.prev # None /\ step.movement = None
  /\ step.prev[1][1] # step.location
  /\ step.prev[1][2] # step.position

\* C3: each entity's movement history holds at most 100 events, newest
\* first, and is exactly the most recent min(n, 100) of the n events emitted
\* for that entity: the oldest are the ones dropped.
C3_HistoryNewestFirstCapped ==
  /\ DOMAIN temporal.movements = DOMAIN emitted
  /\ \A e \in DOMAIN emitted :
       LET history == temporal.movements[e]
       IN  /\ Len(history) = Min(Len(emitted[e]), HISTORY_CAP)
           /\ history = SubSeq(emitted[e], 1, Len(history))
           /\ \A i \in 1..(Len(history) - 1) : history[i].to_time > history[i + 1].to_time
           /\ get_history(temporal, e, HISTORY_CAP) = history

\* more than 100 events were emitted for "keys": the oldest has been dropped
C3_Witness ==
  /\ step.op = "update" /\ step.movement # None
  /\ "keys" \in DOMAIN emitted
  /\ Len(emitted["keys"]) > HISTORY_CAP
  /\ Len(temporal.movements["keys"]) = HISTORY_CAP
  /\ temporal.movements["keys"][1] = step.movement[1]

\* C4: cleanup(maxRecords) is a no-op returning 0 when the live record count
\* is at most maxRecords, and otherwise evicts at most count - maxRecords
\* records, so that at least maxRecords remain after the pass.
C4_CleanupKeepsMaxRecords ==
  step.op = "cleanup" =>
    /\ Cardinality(step.before) <= MAX_MEMORIES =>
         (step.deleted = 0 /\ DOMAIN files = step.before)
    /\ Cardinality(step.before) > MAX_MEMORIES =>
         /\ Cardinality(DOMAIN files) >= MAX_MEMORIES
         /\ step.deleted <= Cardinality(step.before) - MAX_MEMORIES
         /\ Cardinality(step.before \ DOMAIN files) = step.deleted
    /\ DOMAIN files \subseteq step.before

\* a pass that had two records too many and evicted them
C4_Witness ==
  /\ step.op = "cleanup"
  /\ Cardinality(step.before) = MAX_MEMORIES + 2
  /\ step.deleted = 2
  /\ Cardinality(DOMAIN files) = MAX_MEMORIES

C6_EvictedLeavesNoTrace ==
  \A mem_id \in evicted :
    /\ mem_id \notin AllIds(index.by_object)
    /\ mem_id \notin AllIds(index.by_person)
    /\ mem_id \notin AllIds(index.by_activity)
    /\ mem_id \notin DOMAIN index.access_log
    /\ mem_id \notin DOMAIN index.memories
    /\ \A name \in {"keys", "mug"} : mem_id \notin Range(find_by_object(index, name))
    /\ \A name \in {"john", "", "blue shirt"} : mem_id \notin Range(find_by_person(index, name))
    /\ \A name \in {"cooking", "", "reading"} : mem_id \notin Range(find_by_activity(index, name))
    /\ \A name \in {"kitchen", "desk"} : mem_id \notin Range(find_by_location(index, name, 10))
    /\ mem_id \notin Range(find_by_time(index, 0, MaxDay, 20))

\* C7: under any interleaving of the daemon (add, save, cleanup) and the
\* search process (reload, record_access, save) on the shared index file, the
\* access_count the search process holds for a live memory is never lower
\* than a count record_access has set for it before.
C7_AccessCountNeverDrops ==
  \A mem_id \in DOMAIN recorded \cap DOMAIN files :
    Get(qindex.access_log, mem_id, [access_count |-> 0]).access_count >= recorded[mem_id]

\* C8: in every index state, find_by_object returns the same list for any
\* two terms of one synonym group.
C8_SynonymSymmetry ==
  \A canonical \in DOMAIN SYNONYM_GROUPS :
    \A term \in SYNONYM_GROUPS[canonical] :
      find_by_object(index, term) = find_by_object(index, canonical)

\* "eyeglasses" looked up in an index that knows the object only as "specs"
C8_Witness ==
  /\ step.op = "find_by_object" /\ step.name = "eyeglasses"
  /\ step.result # << >>
  /\ "glasses" \notin DOMAIN index.by_object
  /\ "specs" \in DOMAIN index.by_object
  /\ find_by_object(index, "glasses") = step.result

\* C9 (amended): when no expanded term is an index key, every memory
\* find_by_object returns is filed under a key whose form without trailing
\* "s" equals that of the query or of one of its expanded synonym terms, or
\* which has such a term as a whitespace-delimited token or is one of its
\* tokens; find_by_object("car") returns no memory filed only under "card".
C9_FuzzyFallbackControlled ==
  step.op = "find_by_object" =>
    LET terms == search_terms(strip(lower(step.name)))
    IN  /\ exact_matches(index.by_object, terms) = {} =>
             \A mem_id \in Range(step.result) :
               \E key \in DOMAIN index.by_object :
                 /\ mem_id \in index.by_object[key]
                 /\ \E term \in terms :
                      \/ rstrip_char(key, "s") = rstrip_char(term, "s")
                      \/ term \in Range(split(key))
                      \/ key \in Range(split(term))
        /\ step.name = "car" =>
             \A mem_id \in Range(step.result) :
               {key \in DOMAIN index.by_object : mem_id \in index.by_object[key]} # {"card"}

\* "car" looked up in an index holding "card" and "car keys": the fallback
\* returns the memory of the car keys and not that of the card
C9_Witness ==
  /\ step.op = "find_by_object" /\ step.name = "car"
  /\ DOMAIN index.by_object = {"card", "car keys"}
  /\ Range(step.result) = index.by_object["car keys"]
  /\ index.by_object["card"] \cap Range(step.result) = {}

\* C9 as stated: the accepted key matches the query itself, by its form
\* without trailing "s" or by token containment.
C9_FuzzyFallbackAgainstQuery ==
  step.op = "find_by_object" =>
    LET name == strip(lower(step.name))
    IN  exact_matches(index.by_object, search_terms(name)) = {} =>
          \A mem_id \in Range(step.result) :
            \E key \in DOMAIN index.by_object :
              /\ mem_id \in index.by_object[key]
              /\ \/ rstrip_char(key, "s") = rstrip_char(name, "s")
                 \/ name \in Range(split(key))
                 \/ key \in Range(split(name))

\* C10: a placed object query whose candidates all show the entity (under
\* the name or a synonym the index matched) only in a holding context
\* returns the only_in_hand outcome with one of those memories.
C10_OnlyHeldOutcome ==
  (step.op = "find_object" /\ step.placed /\ step.found # << >>) =>
    LET terms == search_terms(strip(lower(step.search_entity)))
        exact == exact_matches(index.by_object, terms) # {}
        matched(name) ==
          LET key == lower(name)
          IN  IF exact THEN key \in terms ELSE \E term \in terms : fuzzy_accepts(key, term)
        detections(mem_id) == {d \in Range(files[mem_id].objects) : matched(d.name)}
    IN  (\A mem_id \in Range(step.found) :
           /\ mem_id \in DOMAIN files
           /\ detections(mem_id) # {}
           /\ \A d \in detections(mem_id) : in_hand(d.context))
        => /\ step.outcome = "only_in_hand"
           /\ step.memory # None
           /\ step.memory[1].id \in Range(step.found)

C12_FailedLoadStartsEmpty ==
  (step.op = "load" /\ step.failed) =>
    /\ qtemporal.last_seen = EmptyDict
    /\ qtemporal.movements = EmptyDict
    /\ qtemporal.attached_objects = EmptyDict

C14_ReadYourWrites ==
  step.op = "add" =>
    /\ \A i \in 1..Len(step.memory.objects) :
         step.memory.id \in Range(find_by_object(index, step.memory.objects[i].name))
    /\ \A i \in 1..Len(step.memory.people) :
         step.memory.id \in Range(find_by_person(index, step.memory.people[i]))
    /\ \A i \in 1..Len(step.memory.activities) :
         step.memory.id \in Range(find_by_activity(index, step.memory.activities[i]))

\* C16: the object, person and activity indices a fresh MemoryIndex rebuilds
\* from persisted data (the metadata entries of an up-to-date index file, or
\* the scan of the memory files) equal the indices the add() calls built.
C16_RebuiltIndicesEqualAdded ==
  (/\ step.op = "rebuild"
   /\ index_file \in {None, Some(save(index))}) =>
    /\ qindex.by_object = index.by_object
    /\ qindex.by_person = index.by_person
    /\ qindex.by_activity = index.by_activity

C17_DispatcherNeverRaises ==
  step.op = "dispatch" => ~step.raised

\* C18: in a capture, a detection reported as attached is recorded in
\* attached_objects, is not counted as a useful object, and emits no
\* movement and adds nothing to the movement counter: the useful objects
\* are the unattached detections at or above the confidence floor, every
\* movement emitted is of one of them, and the counter grows by the
\* movements emitted.  A capture with no useful object is neither written
\* to storage nor added to the index.
C18_AttachedNotTracked ==
  step.op = "ingest" =>
    LET objects == step.analysis.objects
        kept == {i \in 1..Len(objects) : objects[i].confidence >= MIN_CONFIDENCE}
        worn == {i \in kept : objects[i].attached}
        useful == kept \ worn
    IN  /\ \A i \in worn :
             /\ lower(objects[i].label) \in DOMAIN temporal.attached_objects
             /\ temporal.attached_objects[lower(objects[i].label)]
                  = <<step.memory.timestamp, step.analysis.location>>
        /\ step.useful = Cardinality(useful)
        /\ Len(step.movements) <= Cardinality(useful)
        /\ \A k \in 1..Len(step.movements) :
             \E i \in useful : step.movements[k].object_name = lower(objects[i].label)
        /\ temporal.total_movements
             = step.before.graph.total_movements + Len(step.movements)
        /\ step.useful = 0 =>
             /\ ~step.was_saved
             /\ files = step.before.files
             /\ index = step.before.index

\* a capture of a worn object alone, seen earlier somewhere else as a useful
\* object: tracked like the others it would have moved and been stored
C18_Witness ==
  /\ step.op = "ingest"
  /\ step.useful = 0
  /\ DOMAIN files # {}
  /\ \E i \in 1..Len(step.analysis.objects) :
       LET obj == step.analysis.objects[i]
       IN  /\ obj.attached
           /\ obj.confidence >= MIN_CONFIDENCE
           /\ lower(obj.label) \in DOMAIN step.before.graph.last_seen
           /\ step.before.graph.last_seen[lower(obj.label)][1] # step.analysis.location

\* C19: a detection below the confidence floor has no effect: after the
\* capture, the record's detections, the index and the graph's last_seen,
\* movements and attached_objects are what the same capture without that
\* detection would have left.
C19_LowConfidenceHasNoEffect ==
  step.op = "ingest" =>
    LET Sure(obj) == obj.confidence >= MIN_CONFIDENCE
        r == analyze_and_store(step.before.graph, step.before.index, step.before.files,
                               [step.analysis EXCEPT !.objects = SelectSeq(@, Sure)],
                               step.memory.timestamp, step.memory.id)
    IN  /\ step.memory.objects = r.memory.objects
        /\ index = r.index
        /\ temporal.last_seen = r.graph.last_seen
        /\ temporal.movements = r.graph.movements
        /\ temporal.attached_objects = r.graph.attached_objects

\* C20: after any sequence of captures, every key of last_seen, movements
\* and attached_objects is a lower-case name, and get_last_location finds
\* every object a capture kept, whatever the case it was reported in.
C20_GraphKeysLowercase ==
  /\ \A key \in DOMAIN temporal.last_seen \cup DOMAIN temporal.movements
                 \cup DOMAIN temporal.attached_objects : key = lower(key)
  /\ step.op = "ingest" =>
       \A i \in 1..Len(step.memory.objects) :
         get_last_location(temporal, step.memory.objects[i].name) # None

\* C21: a query that returns records reinforces the ones it returns, the
\* top five of a list or the single record of the other paths: after the
\* call the access count of each of those ids is one more than before, and
\* the count of every other id is what it was, so nothing changes when no
\* record is returned.
C21_AccessRecordedForReturned ==
  (step.op = "dispatch" /\ ~step.raised) =>
    LET count(log, mem_id) == Get(log, mem_id, [access_count |-> 0]).access_count
        reinforced == IF step.kind = "memories" THEN Take(step.first, ACCESS_BATCH)
                      ELSE step.first
        ids == {reinforced[i].id : i \in 1..Len(reinforced)}
    IN  \A mem_id \in ids \cup DOMAIN index.access_log \cup DOMAIN step.before :
          count(index.access_log, mem_id)
            = count(step.before, mem_id) + (IF mem_id \in ids THEN 1 ELSE 0)

C23_DestinationNeverPartial ==
  /\ writer.pc # "idle" => graph_file = writer.before
  /\ step.op = "replace" => graph_file = Some(step.data)
  /\ step.op = "crash" => graph_file = step.before
  /\ graph_file # None => graph_file[1].parses
  /\ step.op = "read" => (step.missing \/ ~step.failed)

\* a reader loads the previous text while the temp file is half written
C23_Witness ==
  /\ step.op = "read"
  /\ writer.pc = "flush"
  /\ ~writer.tmp.parses
  /\ graph_file # None
  /\ graph_file # Some(writer.data)
  /\ ~step.failed

\* C24: check_removed_attached returns exactly the attached entities that
\* are not among the visible ones (names compared in lower case) and were
\* last marked at least timeout_seconds before the current time; it drops
\* exactly those from attached_objects and leaves the other attached
\* entries, last_seen, movements and the movement counter as they were.
C24_RemovedAttachedExact ==
  step.op = "check_removed_attached" =>
    LET was == step.before.attached_objects
        seen == {lower(name) : name \in step.visible}
        due == {o \in DOMAIN was :
                  /\ o \notin seen
                  /\ step.current_time - was[o][1] >= ATTACH_TIMEOUT}
    IN  /\ step.removed = due
        /\ DOMAIN temporal.attached_objects = DOMAIN was \ due
        /\ \A o \in DOMAIN temporal.attached_objects : temporal.attached_objects[o] = was[o]
        /\ temporal.last_seen = step.before.last_seen
        /\ temporal.movements = step.before.movements
        /\ temporal.total_movements = step.before.total_movements

\* one attached entity is dropped while another, marked more recently, stays
C24_Witness ==
  /\ step.op = "check_removed_attached"
  /\ step.removed # {}
  /\ temporal.attached_objects # << >>

\* C25: two positions are different exactly when their rows (top, bottom,
\* center) disagree and their columns (left, right, center) disagree too;
\* the answer is the same in both orders, and a position is not different
\* from itself.
C25_DifferentOnlyOnBothAxes ==
  step.op = "positions_different" =>
    LET row == [p \in {lower(q) : q \in GridPositions} |->
                  IF p \in {"top-left", "top", "top-right"} THEN "top"
                  ELSE IF p \in {"bottom-left", "bottom", "bottom-right"} THEN "bottom"
                  ELSE "center"]
        column == [p \in {lower(q) : q \in GridPositions} |->
                     IF p \in {"top-left", "left", "bottom-left", "center-left"} THEN "left"
                     ELSE IF p \in {"top-right", "right", "bottom-right"} THEN "right"
                     ELSE "center"]
        p1 == lower(step.pos1)
        p2 == lower(step.pos2)
    IN  /\ step.different <=> (row[p1] # row[p2] /\ column[p1] # column[p2])
        /\ step.different = positions_different(step.pos2, step.pos1)
        /\ step.pos1 = step.pos2 => ~step.different

\* bottom against bottom-left: the rows agree, so the positions are not different
C25_Witness ==
  /\ step.op = "positions_different"
  /\ step.pos1 = "bottom"
  /\ step.pos2 = "bottom-left"
  /\ ~step.different

\* C26: normalization takes qualifiers off the front and a generic word off
\* the end of the lower-cased label and leaves the text in between alone:
\* the result is the sentinel generic or a run of consecutive characters of
\* the lower-cased label.
C26_MiddleOfLabelNotAltered ==
  step.op = "normalize_location" =>
    /\ step.norm_prev = "generic" \/ contains(step.norm_prev, lower(step.prev_loc))
    /\ step.norm_curr = "generic" \/ contains(step.norm_curr, lower(step.location))

\* C27: when some expanded search term is an index key with a non-empty
\* bucket, find_by_object returns exactly the union of the buckets of the
\* expanded terms, and no memory filed only under other keys, whatever the
\* fuzzy test would say of those keys.
C27_ExactMatchesExcludeFuzzy ==
  step.op = "find_by_object" =>
    LET terms == search_terms(strip(lower(step.name)))
        keyed == {term \in terms \cap DOMAIN index.by_object : index.by_object[term] # {}}
        filed == UNION {index.by_object[term] : term \in keyed}
    IN  keyed # {} =>
          /\ Range(step.result) = filed
          /\ \A key \in (DOMAIN index.by_object) \ terms :
               (index.by_object[key] \ filed) \cap Range(step.result) = {}

\* "mug" looked up in an index holding "cup" and "cups": the memory of the
\* cup is returned, and that of the cups, which the fuzzy test accepts, is not
C27_Witness ==
  /\ step.op = "find_by_object" /\ step.name = "mug"
  /\ {"cup", "cups"} \subseteq DOMAIN index.by_object
  /\ Range(step.result) = index.by_object["cup"]
  /\ index.by_object["cups"] # {}
  /\ index.by_object["cups"] \cap Range(step.result) = {}

\* C28: the co-occurring names a near query returns for a record never
\* include the name under which that record matched the entity asked for
\* (an index key of the record that the lookup matched, exactly, through a
\* synonym, or through the fuzzy fallback).
C28_MatchedNameNotCooccurring ==
  (step.op = "dispatch" /\ step.query_type = "near" /\ ~step.raised) =>
    LET terms == search_terms(strip(lower(step.search_entity)))
        exact == {key \in terms \cap DOMAIN index.by_object : index.by_object[key] # {}}
        matched == IF exact # {} THEN exact
                   ELSE {key \in DOMAIN index.by_object : \E term \in terms : fuzzy_accepts(key, term)}
    IN  \A i \in DOMAIN step.second :
          \A j \in DOMAIN step.second[i][2] :
            \/ lower(step.second[i][2][j]) \notin matched
            \/ step.second[i][1] \notin index.by_object[lower(step.second[i][2][j])]

\* C29: an object query that is not answered as only-held returns a record
\* whenever some record matching the entity can be loaded, and, when held
\* records are not being filtered out, that record is the loadable match
\* with the greatest id.
C29_NewestLoadableMatchReturned ==
  (step.op = "dispatch" /\ step.query_type = "object" /\ ~step.raised
     /\ step.kind # "only_in_hand") =>
    LET matching == Range(find_by_object(index, step.search_entity))
        loadable == {mem_id \in matching : load_memory(files, mem_id) # None}
    IN  loadable # {} =>
          /\ step.first # None
          /\ ~step.placed =>
               step.first = load_memory(files, CHOOSE mem_id \in loadable :
                                                 \A other \in loadable : other <= mem_id)

\* C30 (amended): a scene query for which some record's location matches
\* the entity returns what load_memory gives for the matching record with
\* the greatest id (nothing when its file cannot be loaded) and an empty
\* movement history; a scene query for which none matches gives the result
\* and the access log an object query for the same entity gives.
C30_SceneLoadsNewestOrFallsThrough ==
  (step.op = "dispatch" /\ step.query_type = "scene" /\ ~step.raised) =>
    LET located == {mem_id \in DOMAIN index.memories :
                      \/ contains(lower(step.search_entity), lower(index.memories[mem_id].location))
                      \/ contains(lower(index.memories[mem_id].location), lower(step.search_entity))}
    IN  IF located # {}
        THEN /\ step.first = load_memory(files, CHOOSE mem_id \in located :
                                                  \A other \in located : other <= mem_id)
             /\ step.second = << >>
             /\ step.kind = "memory"
        ELSE [raised |-> FALSE, index |-> index, kind |-> step.kind,
              first |-> step.first, second |-> step.second]
               = find_object_typed([index EXCEPT !.access_log = step.before], temporal, files,
                                   "object", step.search_entity, step.gemini, step.placed, today)

\* a scene query for "mug", which no location matches, answered with a
\* record of the mug through the object path
C30_Witness ==
  /\ step.op = "dispatch" /\ step.query_type = "scene" /\ step.search_entity = "mug"
  /\ find_by_location(index, "mug", LOCATION_LIMIT) = << >>
  /\ step.kind = "location"
  /\ step.first # None

\* C30 as stated: a scene query for which some record's location matches
\* the entity returns the matching record with the greatest id and an empty
\* movement history; a scene query for which none matches gives the result
\* and the access log an object query for the same entity gives.
C30_SceneNewestOrFallThrough ==
  (step.op = "dispatch" /\ step.query_type = "scene" /\ ~step.raised) =>
    LET located == {mem_id \in DOMAIN index.memories :
                      \/ contains(lower(step.search_entity), lower(index.memories[mem_id].location))
                      \/ contains(lower(index.memories[mem_id].location), lower(step.search_entity))}
    IN  IF located # {}
        THEN /\ step.first # None
             /\ \A mem_id \in located : mem_id <= step.first[1].id
             /\ step.first[1].id \in located
             /\ step.second = << >>
        ELSE [raised |-> FALSE, index |-> index, kind |-> step.kind,
              first |-> step.first, second |-> step.second]
               = find_object_typed([index EXCEPT !.access_log = step.before], temporal, files,
                                   "object", step.search_entity, step.gemini, step.placed, today)

\* C31: parse_time_entity returns (now - N hours, now) or (now - N minutes,
\* now) for "last|past N hours|minutes", (midnight yesterday, midnight
\* today) for "yesterday", the fixed windows for the named day parts, and
\* the trailing 24 hours for an expression it does not recognize; the start
\* is never after the end, and every day boundary lies on the day of now or
\* the day before.
C31_WindowForEveryExpression ==
  step.op = "parse_time_entity" =>
    LET e == strip(lower(step.entity))
        w == step.window
        now == step.now
        minutes_back == (w.end.day - w.start.day) * 1440 + (w.end.second - w.start.second) \div 60
        hours == [x \in {"last 2 hours", "past 1 hour", "last 3 hours ago", "last 20000000 hours"} |->
                    IF x = "last 2 hours" THEN 2 ELSE IF x = "past 1 hour" THEN 1
                    ELSE IF x = "last 3 hours ago" THEN 3 ELSE 20000000]
        minutes == [x \in {"past 30 minutes", "last 90 minutes", "last  0 minutes"} |->
                      IF x = "past 30 minutes" THEN 30 ELSE IF x = "last 90 minutes" THEN 90 ELSE 0]
        dayparts == [x \in {"this morning", "this afternoon", "this evening", "tonight", "last night"} |->
                       IF x = "this morning" THEN <<0, 21600, 0, 43200>>
                       ELSE IF x = "this afternoon" THEN <<0, 43200, 0, 64800>>
                       ELSE IF x = "last night" THEN <<1, 72000, 0, 21600>>
                       ELSE <<0, 64800, 0, 86399>>]
    IN  /\ ~w.raised
        /\ w.start.day < w.end.day \/ (w.start.day = w.end.day /\ w.start.second <= w.end.second)
        /\ {w.start.day, w.end.day} \subseteq {now.day, now.day - 1}
        /\ e \in DOMAIN hours =>
             w.end = now /\ minutes_back = 60 * hours[e] /\ w.start.second % 60 = now.second % 60
        /\ e \in DOMAIN minutes =>
             w.end = now /\ minutes_back = minutes[e] /\ w.start.second % 60 = now.second % 60
        /\ e \in DOMAIN dayparts =>
             /\ w.start = [day |-> now.day - dayparts[e][1], second |-> dayparts[e][2]]
             /\ w.end = [day |-> now.day - dayparts[e][3], second |-> dayparts[e][4]]
        /\ e = "yesterday" =>
             w.start = [day |-> now.day - 1, second |-> 0] /\ w.end = [day |-> now.day, second |-> 0]
        /\ e \in {"last week", ""} =>
             w.end = now /\ w.start = [day |-> now.day - 1, second |-> now.second]

\* C32: a retry_api_call under way has invoked the wrapped call at most
\* max_retries + 1 times; it returns at the first call that succeeds, every
\* earlier call having raised a retryable error; it re-raises a
\* non-retryable error at the call that raised it, and a retryable one only
\* at call max_retries + 1; and every call that is entered comes to return
\* or raise.
C32_RetryBoundedAndTerminates ==
  /\ [](retry.pc # "idle" =>
          LET failed_before(n) == \A i \in 1..n : \E j \in 1..Len(RETRYABLE_MARKS) :
                                    contains(RETRYABLE_MARKS[j], lower(retry.errors[i]))
          IN  /\ retry.calls <= retry.max_retries + 1
              /\ retry.pc = "returned" =>
                   /\ retry.calls = Len(retry.errors) + 1
                   /\ failed_before(Len(retry.errors))
              /\ retry.pc = "raised" =>
                   /\ retry.calls = Len(retry.errors)
                   /\ failed_before(Len(retry.errors) - 1)
                   /\ \/ ~failed_before(Len(retry.errors))
                      \/ retry.calls = retry.max_retries + 1
              /\ retry.pc \in {"call", "sleep"} =>
                   /\ retry.calls = Len(retry.errors)
                   /\ failed_before(Len(retry.errors)))
  /\ (retry.pc = "call" ~> retry.pc \in {"returned", "raised"})

\* the default budget used up: four retryable failures, the last one re-raised
C32_Witness ==
  /\ retry.pc = "raised"
  /\ retry.max_retries = MAX_RETRIES
  /\ retry.calls = MAX_RETRIES + 1
  /\ \A i \in 1..Len(retry.errors) : retry.errors[i] = "429 Too Many Requests"

\* C33: find_by_person returns the bucket of the name when the name is an
\* index key; otherwise the union of the buckets whose key contains the
\* name, is contained in it, or has the same first token; for an empty name
\* every id filed under any person; and always newest first.
C33_PersonMatching ==
  step.op = "find_by_person" =>
    LET name == strip(lower(step.name))
        by_person == index.by_person
        partial == {key \in DOMAIN by_person :
                      \/ contains(name, key)
                      \/ contains(key, name)
                      \/ (split(key) # << >> /\ split(key)[1] = split(name)[1])}
        expected == IF name = "" THEN UNION {by_person[key] : key \in DOMAIN by_person}
                    ELSE IF name \in DOMAIN by_person THEN by_person[name]
                    ELSE UNION {by_person[key] : key \in partial}
    IN  /\ ~step.raised
        /\ Range(step.result) = expected
        /\ \A i \in DOMAIN step.result : \A j \in DOMAIN step.result :
             i < j => step.result[i] > step.result[j]

C36_SilentUpdateFrame ==
  step.op = "update" =>
    /\ lower(step.name) \notin DOMAIN step.before.last_seen => step.movement = None
    /\ step.movement = None =>
         /\ temporal.movements = step.before.movements
         /\ temporal.total_movements = step.before.total_movements
         /\ temporal.attached_objects = step.before.attached_objects
         /\ DOMAIN temporal.last_seen = DOMAIN step.before.last_seen \cup {lower(step.name)}
         /\ \A other \in DOMAIN step.before.last_seen \ {lower(step.name)} :
              temporal.last_seen[other] = step.before.last_seen[other]
         /\ temporal.last_seen[lower(step.name)] =
              <<step.location, step.position, step.timestamp, step.memory_id>>

\* the first sighting of one entity in a graph that holds a movement of another
C36_Witness ==
  /\ step.op = "update" /\ step.movement = None
  /\ lower(step.name) \notin DOMAIN step.before.last_seen
  /\ step.before.total_movements >= 1
  /\ step.before.movements # << >>

\* C37: a movement update returns carries the entity's last_seen entry from
\* immediately before the call in its from-fields and the call's arguments
\* in its to-fields; the movement counter goes up by one when a movement is
\* returned and stays as it was when none is.
C37_MovementFieldsAndCounter ==
  step.op = "update" =>
    /\ step.movement # None =>
         LET m == step.movement[1]
             was == step.before.last_seen[lower(step.name)]
         IN  /\ lower(step.name) \in DOMAIN step.before.last_seen
             /\ m.object_name = lower(step.name)
             /\ <<m.from_location, m.from_position, m.from_time, m.from_memory_id>> = was
             /\ <<m.to_location, m.to_position, m.to_time, m.to_memory_id>> =
                  <<step.location, step.position, step.timestamp, step.memory_id>>
    /\ temporal.total_movements =
         step.before.total_movements + (IF step.movement # None THEN 1 ELSE 0)

\* a movement from one location to another, counted as the second
C37_Witness ==
  /\ step.op = "update" /\ step.movement # None
  /\ step.movement[1].from_location # step.movement[1].to_location
  /\ step.movement[1].from_time < step.movement[1].to_time
  /\ temporal.total_movements = 2


\* C38: after any adds and cleanups, adds under an id already in use
\* included, every id in the by_object bucket of a name has cached metadata
\* whose object names, lowered, include that name.
C38_BucketsAgreeWithMetadata ==
  \A n \in DOMAIN index.by_object :
    \A mem_id \in index.by_object[n] :
      /\ mem_id \in DOMAIN index.memories
      /\ n \in Range(Lowered(split_on(index.memories[mem_id].objects, ",")))


\* C39: when the search process has reloaded its index, looking up an
\* object in it returns no id that a cleanup of the daemon's checkpoints
\* evicted before the reload, whatever the search process saved in between.
C39_ReloadForgetsEvicted ==
  step.op = "reload" =>
    /\ Range(find_by_object(qindex, "keys")) \cap evicted = {}
    /\ \A n \in DOMAIN qindex.by_object : qindex.by_object[n] \cap evicted = {}

====
